---- MODULE Spec2Model ----
(***************************************************************************)
(* A model of the futures backtesting engine: the order manager with its   *)
(* OCO and bracket linkage (core/orders.py), the position ledger           *)
(* (core/orders.py, Position) and the prop-firm risk manager               *)
(* (core/risk.py).                                                          *)
(*                                                                         *)
(* Conventions.  Python's None is the number 0 (None); every price is a    *)
(* positive integer, so no price is mistaken for None.  An order id is the *)
(* order's index in `orders` (the code draws a fresh uuid per Order), an   *)
(* OCO-group id is the group's index in `oco_groups` (a fresh uuid per     *)
(* group).  Order.timestamp and Order.fill_time are written by the code    *)
(* and read by none of the modelled operations; they are left out.         *)
(***************************************************************************)
EXTENDS Integers, Sequences, FiniteSets, TLC

VARIABLES
    orders,            \* OrderManager.orders: order id -> Order
    pending,           \* OrderManager._pending_orders: list of order ids
    oco_groups,        \* OrderManager._oco_groups: oco id -> list of order ids
    bracket_children,  \* OrderManager._bracket_children: parent id -> <<tp, sl>>
    fills,             \* the list process_pending returned, <<>> after any other operation
    ret,               \* what cancel_order returned ("None" after any other operation)
    cur_bar,           \* the bars the last process_pending pass was given
    ocoCancelled,      \* ids the last pass cancelled as OCO siblings of a fill (line 337)
    activated,         \* ids the last pass activated as bracket children (lines 326-327)
    brackets,          \* every <<entry, tp, sl>> submit_bracket_order was given
    bracket_args,      \* entry id -> the ticks buy_bracket / sell_bracket was given
    twin,              \* two order managers given the same calls, keyed by order_id
    position,          \* a Position: size, avg_entry_price, trades
    config,            \* the PropFirmConfig the RiskManager was built with
    risk,              \* the RiskManager's fields
    risk_in,           \* the arguments of the last RiskManager.update call
    risk_prev,         \* current_day and daily_loss_limit_hit before that call
    risk_status,       \* what that call returned
    can_open,          \* the last can_open_position call: arguments and result
    engine,            \* BacktestEngine: where run() is, cash, equity, positions, _trade_log
    results,           \* BacktestResult: trades and equity_curve
    callbacks,         \* the calls run() made on the strategy
    step,              \* what the last iteration of run()'s loop did
    feed,              \* the MultiDataFeed and the place its iterator is at
    look               \* per order: the step and bar of its submission and of its fill

omVars == <<orders, pending, oco_groups, bracket_children, fills, ret,
            cur_bar, ocoCancelled, activated, brackets, bracket_args, twin>>

riskVars == <<config, risk, risk_in, risk_prev, risk_status, can_open>>

runVars == <<engine, results, callbacks, step, feed, look>>

vars == <<omVars, position, riskVars, runVars>>

----------------------------------------------------------------------------
(* Bounds of the model *)

MaxOrders == 3       \* orders the manager is given
MaxPrice == 2        \* prices are 1..MaxPrice
MaxFills == 3        \* fills one position is updated with
MaxFillSize == 2     \* a signed fill size is in -MaxFillSize..MaxFillSize
MaxEquity == 3       \* equity and balances are 0..MaxEquity
MaxLimit == 2        \* max_daily_loss and max_loss are 0..MaxLimit
MaxDay == 2          \* calendar dates are 1..MaxDay
MaxTime == 1         \* times of day are 0..MaxTime
MaxRunSize == 2      \* the strategy orders 1..MaxRunSize contracts
MaxRunOrders == 3    \* orders the strategy places in one run
RunBalance == 60     \* initial balance of a run's account
RunDailyLoss == 18
MaxStamp == 3        \* bar timestamps are 1..MaxStamp
MaxRows == 2         \* rows of one symbol's frame
MaxIds == 2          \* values an order_id or oco_id is drawn from
MaxIdObjs == 4       \* orders given to the two order managers
MaxCap == 2
MaxHeld == 1   \* max_daily_loss of a run's account
RunMaxLoss == 30     \* max_loss of a run's account

----------------------------------------------------------------------------
(* Values *)

None == 0
DefaultSize == 1

Symbols == {"MES"}              \* the symbols orders are placed on
OtherSymbols == {"MNQ"}         \* a symbol with no order, for cancel_all's filter
NoSymbol == "None"   \* cancel_all(symbol=None)
Sides == {"buy", "sell"}
OrderTypes == {"market", "limit", "stop", "stop_limit"}
Prices == 1..MaxPrice

Range(s) == {s[i] : i \in DOMAIN s}
Min(a, b) == IF a <= b THEN a ELSE b
Max(a, b) == IF a >= b THEN a ELSE b
Abs(x) == IF x < 0 THEN -x ELSE x

\* A bar: open, high, low with low <= open <= high.
Bars == {b \in [open : Prices, high : Prices, low : Prices] :
            b.low <= b.open /\ b.open <= b.high}

\* The mapping symbol -> bar a pass is given; a symbol may have no bar.
BarMaps == UNION {[S -> Bars] : S \in SUBSET Symbols}

\* Order(...) as the dataclass builds it: status PENDING, no fill, no OCO group.
NewOrder(symbol, side, size, order_type, price, stop_price) ==
    [symbol |-> symbol, side |-> side, size |-> size, order_type |-> order_type,
     price |-> price, stop_price |-> stop_price, status |-> "pending",
     fill_price |-> None, oco_id |-> None]

\* The orders a caller builds: a limit carries a price, a stop a stop price.
OrderInputs ==
    {NewOrder(s, d, DefaultSize, "market", None, None) : s \in Symbols, d \in Sides}
    \cup {NewOrder(s, d, DefaultSize, "stop_limit", None, None) : s \in Symbols, d \in Sides}
    \cup UNION {{NewOrder(s, d, DefaultSize, "limit", p, None) : s \in Symbols, d \in Sides} : p \in Prices}
    \cup UNION {{NewOrder(s, d, DefaultSize, "stop", None, p) : s \in Symbols, d \in Sides} : p \in Prices}

is_buy(order) == order.side = "buy"
is_sell(order) == order.side = "sell"
is_filled(order) == order.status = "filled"
is_active(order) == order.status \in {"pending", "open"}

----------------------------------------------------------------------------
(* OrderManager: the operations as functions of the manager's state *)

OM == [orders |-> orders, pending |-> pending, oco_groups |-> oco_groups,
       bracket_children |-> bracket_children]

\* submit_order: the order's id is the next index of `orders`.
submit_order(om, order) ==
    LET id == Len(om.orders) + 1
        groups == IF order.oco_id # None /\ order.oco_id > Len(om.oco_groups)
                  THEN Append(om.oco_groups, <<>>)
                  ELSE om.oco_groups
    IN [om EXCEPT !.orders = Append(@, order),
                  !.pending = Append(@, id),
                  !.oco_groups = IF order.oco_id # None
                                 THEN [groups EXCEPT ![order.oco_id] = Append(@, id)]
                                 ELSE groups]

\* CancelLinked that cancels every other active order, grouped or not.
CancelLinked_all(ords, groups, order_id) ==
    [i \in DOMAIN ords |->
        IF i # order_id /\ is_active(ords[i])
        THEN [ords[i] EXCEPT !.status = "cancelled"]
        ELSE ords[i]]

\* The status writes of cancel_order's OCO loop (lines 181-186).
CancelLinked(ords, groups, order_id) ==
    LET oco == ords[order_id].oco_id
        linked == IF oco # None /\ oco \in DOMAIN groups THEN Range(groups[oco]) ELSE {}
    IN [i \in DOMAIN ords |->
            IF i # order_id /\ i \in linked /\ is_active(ords[i])
            THEN [ords[i] EXCEPT !.status = "cancelled"]
            ELSE ords[i]]

\* cancel_order returns False for an unknown or inactive order.
cancel_order_ret(om, order_id) ==
    order_id \in DOMAIN om.orders /\ is_active(om.orders[order_id])

\* The value cancel_order returned, as the caller sees it.
Ret(b) == IF b THEN "True" ELSE "False"

\* cancel_order that does not look at the order's status.
cancel_order_any(om, order_id, cancel_linked_oco) ==
    IF order_id \notin DOMAIN om.orders THEN om
    ELSE LET o1 == [om.orders EXCEPT ![order_id].status = "cancelled"]
         IN [om EXCEPT !.orders = IF cancel_linked_oco
                                  THEN CancelLinked(o1, om.oco_groups, order_id)
                                  ELSE o1]

cancel_order(om, order_id, cancel_linked_oco) ==
    IF ~cancel_order_ret(om, order_id) THEN om
    ELSE LET o1 == [om.orders EXCEPT ![order_id].status = "cancelled"]
         IN [om EXCEPT !.orders = IF cancel_linked_oco
                                  THEN CancelLinked(o1, om.oco_groups, order_id)
                                  ELSE o1]

cancel_all(om, symbol) ==
    [om EXCEPT !.orders =
        [i \in DOMAIN om.orders |->
            IF is_active(om.orders[i]) /\ (symbol = NoSymbol \/ om.orders[i].symbol = symbol)
            THEN [om.orders[i] EXCEPT !.status = "cancelled"]
            ELSE om.orders[i]]]

submit_oco_pair(om, order1, order2) ==
    LET oco_id == Len(om.oco_groups) + 1
    IN submit_order(submit_order(om, [order1 EXCEPT !.oco_id = oco_id]),
                    [order2 EXCEPT !.oco_id = oco_id])

\* submit_bracket_order with the children submitted at once, like the entry.
submit_bracket_order_eager(om, entry_order, tp_order, sl_order) ==
    LET s1 == submit_order(submit_order(submit_order(om, entry_order), tp_order), sl_order)
        entry_id == Len(om.orders) + 1
    IN [s1 EXCEPT !.bracket_children =
                      [p \in DOMAIN @ \cup {entry_id} |->
                          IF p = entry_id THEN <<entry_id + 1, entry_id + 2>> ELSE @[p]]]

submit_bracket_order(om, entry_order, tp_order, sl_order) ==
    LET s1 == submit_order(om, entry_order)
        entry_id == Len(s1.orders)
    IN [s1 EXCEPT !.bracket_children =
                      [p \in DOMAIN @ \cup {entry_id} |->
                          IF p = entry_id THEN <<entry_id + 1, entry_id + 2>> ELSE @[p]],
                  !.orders = @ \o <<tp_order, sl_order>>]

\* LimitFill that never improves on the limit price.
LimitFill_at_limit(order, bar) ==
    IF is_buy(order) /\ bar.low <= order.price THEN order.price
    ELSE IF is_sell(order) /\ bar.high >= order.price THEN order.price
    ELSE None

\* The fill price of process_pending's matching branches, None when no match.
LimitFill(order, bar) ==
    IF is_buy(order) /\ bar.low <= order.price
    THEN (IF bar.open <= order.price THEN Min(order.price, bar.open) ELSE order.price)
    ELSE IF is_sell(order) /\ bar.high >= order.price
    THEN (IF bar.open >= order.price THEN Max(order.price, bar.open) ELSE order.price)
    ELSE None

\* StopFill that never slips past the stop price.
StopFill_at_stop(order, bar) ==
    IF is_buy(order) /\ bar.high >= order.stop_price THEN order.stop_price
    ELSE IF is_sell(order) /\ bar.low <= order.stop_price THEN order.stop_price
    ELSE None

StopFill(order, bar) ==
    IF is_buy(order) /\ bar.high >= order.stop_price
    THEN (IF bar.open >= order.stop_price THEN Max(order.stop_price, bar.open) ELSE order.stop_price)
    ELSE IF is_sell(order) /\ bar.low <= order.stop_price
    THEN (IF bar.open <= order.stop_price THEN Min(order.stop_price, bar.open) ELSE order.stop_price)
    ELSE None

\* MatchPrice with a market order filled at the bar's high.
MatchPrice_at_high(order, bar) ==
    CASE order.order_type = "market" -> bar.high
      [] order.order_type = "limit" -> LimitFill(order, bar)
      [] order.order_type = "stop" -> StopFill(order, bar)
      [] OTHER -> None

\* MatchPrice that fills a stop-limit order at the open, like a market order.
MatchPrice_stop_limit(order, bar) ==
    CASE order.order_type \in {"market", "stop_limit"} -> bar.open
      [] order.order_type = "limit" -> LimitFill(order, bar)
      [] order.order_type = "stop" -> StopFill(order, bar)
      [] OTHER -> None

\* Lines 293-309: the fill price by order type, None when the bar does not match.
MatchPrice(order, bar) ==
    CASE order.order_type = "market" -> bar.open
      [] order.order_type = "limit" -> LimitFill(order, bar)
      [] order.order_type = "stop" -> StopFill(order, bar)
      [] OTHER -> None

\* Lines 317-329: a filled bracket parent activates its children.
ActivateChildren(st, id) ==
    IF id \notin DOMAIN st.bracket_children THEN st
    ELSE LET tp == st.bracket_children[id][1]
             sl == st.bracket_children[id][2]
             oco_id == Len(st.oco_groups) + 1
         IN [st EXCEPT !.orders = [@ EXCEPT ![tp].oco_id = oco_id, ![sl].oco_id = oco_id],
                       !.oco_groups = Append(@, <<tp, sl>>),
                       !.pending = @ \o <<tp, sl>>,
                       !.bracket_children = [p \in DOMAIN @ \ {id} |-> @[p]],
                       !.activated = @ \cup {tp, sl}]

\* Lines 331-337: a fill cancels the active members of its OCO group.
CancelSiblings(st, id) ==
    LET oco == st.orders[id].oco_id
        linked == IF oco # None /\ oco \in DOMAIN st.oco_groups
                  THEN Range(st.oco_groups[oco]) ELSE {}
        hit == {i \in linked : i # id /\ i \in DOMAIN st.orders /\ is_active(st.orders[i])}
    IN [st EXCEPT !.orders = [i \in DOMAIN @ |->
                                 IF i \in hit THEN [@[i] EXCEPT !.status = "cancelled"]
                                 ELSE @[i]],
                  !.ocoCancelled = @ \cup hit]

\* Lines 311-337: the order is filled at fill_price.
FillOrder(st, id, fill_price) ==
    LET s1 == [st EXCEPT !.orders[id].fill_price = fill_price,
                         !.orders[id].status = "filled",
                         !.fills = Append(@, <<id, fill_price>>)]
    IN CancelSiblings(ActivateChildren(s1, id), id)

\* The loop of process_pending over _pending_orders.  A Python list iterator
\* reads the list by index against its current length, so the children a
\* fill appends to _pending_orders are visited by the same loop.
RECURSIVE MatchLoop(_, _, _)
MatchLoop(st, bars, i) ==
    IF i > Len(st.pending) THEN st
    ELSE LET id == st.pending[i]
             order == st.orders[id]
             keep == [st EXCEPT !.still_pending = Append(@, id)]
         IN IF order.symbol \notin DOMAIN bars THEN MatchLoop(keep, bars, i + 1)
            ELSE LET fill_price == MatchPrice(order, bars[order.symbol])
                 IN IF fill_price # None
                    THEN MatchLoop(FillOrder(st, id, fill_price), bars, i + 1)
                    ELSE MatchLoop(keep, bars, i + 1)

\* process_pending that hands back the unmatched orders last first.
process_pending_reversed(om, bars) ==
    LET st0 == [orders |-> om.orders, pending |-> om.pending,
                oco_groups |-> om.oco_groups, bracket_children |-> om.bracket_children,
                fills |-> <<>>, still_pending |-> <<>>,
                ocoCancelled |-> {}, activated |-> {}]
        st == MatchLoop(st0, bars, 1)
        n == Len(st.still_pending)
    IN [st EXCEPT !.pending = [k \in 1..n |-> st.still_pending[n + 1 - k]]]

process_pending(om, bars) ==
    LET st0 == [orders |-> om.orders, pending |-> om.pending,
                oco_groups |-> om.oco_groups, bracket_children |-> om.bracket_children,
                fills |-> <<>>, still_pending |-> <<>>,
                ocoCancelled |-> {}, activated |-> {}]
        st == MatchLoop(st0, bars, 1)
    IN [st EXCEPT !.pending = st.still_pending]

----------------------------------------------------------------------------
(* The order manager driven by its callers *)

SetOM(om) ==
    /\ orders' = om.orders
    /\ pending' = om.pending
    /\ oco_groups' = om.oco_groups
    /\ bracket_children' = om.bracket_children

NoPass ==
    /\ fills' = <<>>
    /\ cur_bar' = <<>>
    /\ ocoCancelled' = {}
    /\ activated' = {}

\* OrderManager.__init__ of the order manager keyed by order_id (below).
NewKeyed ==
    [objs |-> <<>>, orders |-> <<>>, pending |-> <<>>, oco_groups |-> <<>>,
     bracket_children |-> <<>>, log |-> <<>>]

InitOM ==
    /\ orders = <<>>
    /\ pending = <<>>
    /\ oco_groups = <<>>
    /\ bracket_children = <<>>
    /\ fills = <<>>
    /\ ret = "None"
    /\ cur_bar = <<>>
    /\ ocoCancelled = {}
    /\ activated = {}
    /\ brackets = {}
    /\ bracket_args = <<>>
    /\ twin = [drawn |-> NewKeyed, fresh |-> NewKeyed]

SubmitOrder ==
    /\ Len(orders) + 1 <= MaxOrders
    /\ \E order \in OrderInputs : SetOM(submit_order(OM, order))
    /\ ret' = "None"
    /\ NoPass
    /\ UNCHANGED <<brackets, bracket_args, twin, position, riskVars, runVars>>

SubmitOcoPair ==
    /\ Len(orders) + 2 <= MaxOrders
    /\ \E order1 \in OrderInputs, order2 \in OrderInputs :
          SetOM(submit_oco_pair(OM, order1, order2))
    /\ ret' = "None"
    /\ NoPass
    /\ UNCHANGED <<brackets, bracket_args, twin, position, riskVars, runVars>>

\* The bracket BaseStrategy.buy_bracket / sell_bracket build: the children
\* close the entry, the take profit is a limit and the stop loss a stop.
SubmitBracket ==
    /\ Len(orders) + 3 <= MaxOrders
    /\ \E entry \in OrderInputs, tp_price \in Prices, sl_price \in Prices :
          LET exit == IF is_buy(entry) THEN "sell" ELSE "buy"
              tp == NewOrder(entry.symbol, exit, entry.size, "limit", tp_price, None)
              sl == NewOrder(entry.symbol, exit, entry.size, "stop", None, sl_price)
              n == Len(orders)
          IN /\ SetOM(submit_bracket_order(OM, entry, tp, sl))
             /\ brackets' = brackets \cup {<<n + 1, n + 2, n + 3>>}
    /\ ret' = "None"
    /\ NoPass
    /\ UNCHANGED <<bracket_args, twin, position, riskVars, runVars>>

\* An order_type outside the OrderType enum: the dataclass does not check it.
UnrecognizedKinds == {"trailing_stop"}

\* submit_order given an order of any kind, recognized or not.
SubmitAnyKind ==
    /\ Len(orders) + 1 <= MaxOrders
    /\ \E order \in OrderInputs \cup
                     {NewOrder(s, d, DefaultSize, k, None, None) :
                         s \in Symbols, d \in Sides, k \in UnrecognizedKinds} :
          SetOM(submit_order(OM, order))
    /\ ret' = "None"
    /\ NoPass
    /\ UNCHANGED <<brackets, bracket_args, twin, position, riskVars, runVars>>

CancelOrder ==
    /\ \E order_id \in 1..MaxOrders, cancel_linked_oco \in BOOLEAN :
          /\ SetOM(cancel_order(OM, order_id, cancel_linked_oco))
          /\ ret' = Ret(cancel_order_ret(OM, order_id))
    /\ NoPass
    /\ UNCHANGED <<brackets, bracket_args, twin, position, riskVars, runVars>>

CancelAll ==
    /\ \E symbol \in Symbols \cup OtherSymbols \cup {NoSymbol} : SetOM(cancel_all(OM, symbol))
    /\ ret' = "None"
    /\ NoPass
    /\ UNCHANGED <<brackets, bracket_args, twin, position, riskVars, runVars>>

ProcessPending ==
    /\ \E bars \in BarMaps :
          LET st == process_pending(OM, bars)
          IN /\ SetOM(st)
             /\ fills' = st.fills
             /\ ocoCancelled' = st.ocoCancelled
             /\ activated' = st.activated
             /\ cur_bar' = bars
    /\ ret' = "None"
    /\ UNCHANGED <<brackets, bracket_args, twin, position, riskVars, runVars>>



----------------------------------------------------------------------------
(* Position.  avg_entry_price is a float in the code; the model keeps it   *)
(* exact, as a fraction [n, d] in lowest terms with d > 0.                 *)

RECURSIVE GCD(_, _)
GCD(a, b) == IF b = 0 THEN a ELSE GCD(b, a % b)

Frac(n, d) ==
    LET g == GCD(Abs(n), Abs(d))
        s == IF d < 0 THEN -1 ELSE 1
    IN [n |-> (s * n) \div g, d |-> (s * d) \div g]

FillSizes == (-MaxFillSize)..MaxFillSize

\* Lines 91-94: a flat position takes the fill as it is.
OpenPosition(pos, fill_price, fill_size) ==
    [size |-> fill_size, avg_entry_price |-> Frac(fill_price, 1)]

\* Lines 95-99: a fill in the position's direction is blended into the average.
AddToPosition(pos, fill_price, fill_size) ==
    LET avg == pos.avg_entry_price
        total_n == pos.size * avg.n + fill_size * fill_price * avg.d
        size == pos.size + fill_size
    IN [size |-> size, avg_entry_price |-> Frac(total_n, avg.d * size)]

\* PartialClose that takes the fill price as the new average.
PartialClose_reprice(pos, fill_price, fill_size) ==
    [size |-> pos.size + fill_size, avg_entry_price |-> Frac(fill_price, 1)]

\* Lines 102-104: a partial close keeps the average.
PartialClose(pos, fill_price, fill_size) ==
    [size |-> pos.size + fill_size, avg_entry_price |-> pos.avg_entry_price]

\* CloseOrReverse with the remainder's sign slipped.
CloseOrReverse_slip(pos, fill_price, fill_size) ==
    LET remaining == fill_size - pos.size
    IN [size |-> remaining,
        avg_entry_price |-> IF remaining # 0 THEN Frac(fill_price, 1) ELSE Frac(0, 1)]

\* Lines 105-109: a full close or a reversal.
CloseOrReverse(pos, fill_price, fill_size) ==
    LET remaining == fill_size + pos.size
    IN [size |-> remaining,
        avg_entry_price |-> IF remaining # 0 THEN Frac(fill_price, 1) ELSE Frac(0, 1)]

\* Position_update that records the size before the fill.
Position_update_stale(pos, fill_price, fill_size, timestamp) ==
    LET upd == IF pos.size = 0 THEN OpenPosition(pos, fill_price, fill_size)
               ELSE IF pos.size * fill_size > 0 THEN AddToPosition(pos, fill_price, fill_size)
               ELSE IF Abs(fill_size) < Abs(pos.size) THEN PartialClose(pos, fill_price, fill_size)
               ELSE CloseOrReverse(pos, fill_price, fill_size)
    IN [size |-> upd.size,
        avg_entry_price |-> upd.avg_entry_price,
        trades |-> Append(pos.trades,
                          [timestamp |-> timestamp, price |-> fill_price,
                           size |-> fill_size, position_after |-> pos.size])]

\* Lines 89-116
Position_update(pos, fill_price, fill_size, timestamp) ==
    LET upd == IF pos.size = 0 THEN OpenPosition(pos, fill_price, fill_size)
               ELSE IF pos.size * fill_size > 0 THEN AddToPosition(pos, fill_price, fill_size)
               ELSE IF Abs(fill_size) < Abs(pos.size) THEN PartialClose(pos, fill_price, fill_size)
               ELSE CloseOrReverse(pos, fill_price, fill_size)
    IN [size |-> upd.size,
        avg_entry_price |-> upd.avg_entry_price,
        trades |-> Append(pos.trades,
                          [timestamp |-> timestamp, price |-> fill_price,
                           size |-> fill_size, position_after |-> upd.size])]

InitPosition ==
    position = [size |-> 0, avg_entry_price |-> Frac(0, 1), trades |-> <<>>]

\* One Position.update call; the timestamp is the call's number.
PositionUpdate ==
    /\ Len(position.trades) < MaxFills
    /\ \E fill_price \in Prices, fill_size \in FillSizes :
          position' = Position_update(position, fill_price, fill_size,
                                      Len(position.trades) + 1)
    /\ UNCHANGED <<omVars, riskVars, runVars>>

----------------------------------------------------------------------------
(* RiskManager.  A timestamp is a calendar date and a time of day; the     *)
(* close time is the parsed position_close_time.  Every shipped            *)
(* PropFirmConfig sets drawdown_start_value to initial_balance.            *)

Equities == 0..MaxEquity
Days == 1..MaxDay
Times == 0..MaxTime
DrawdownTypes == {"static", "eod_trailing", "intraday_trailing"}

Configs ==
    {[initial_balance |-> b, max_daily_loss |-> dl, max_loss |-> ml,
      drawdown_type |-> dt, drawdown_start_value |-> b, position_close_time |-> ct] :
        b \in {MaxEquity - 1}, dl \in 0..MaxLimit, ml \in 1..MaxLimit,
        dt \in DrawdownTypes, ct \in 1..MaxTime}

\* RiskManager.__init__
NewRisk(cfg) ==
    [current_day |-> None,
     day_start_equity |-> cfg.initial_balance,
     equity_high |-> cfg.initial_balance,
     intraday_high |-> cfg.initial_balance,
     daily_loss_limit_hit |-> FALSE,
     max_loss_hit |-> FALSE]

\* RollOver that leaves the daily-loss flag as it was.
RollOver_keep_daily(r, current_day, equity) ==
    IF r.current_day # current_day
    THEN [r EXCEPT !.current_day = current_day,
                   !.day_start_equity = equity,
                   !.intraday_high = equity]
    ELSE r

\* RollOver that clears the max-loss flag along with the daily-loss flag.
RollOver_clear_max(r, current_day, equity) ==
    IF r.current_day # current_day
    THEN [r EXCEPT !.current_day = current_day,
                   !.day_start_equity = equity,
                   !.intraday_high = equity,
                   !.daily_loss_limit_hit = FALSE,
                   !.max_loss_hit = FALSE]
    ELSE r

\* Lines 33-39: a new trading day.
RollOver(r, current_day, equity) ==
    IF r.current_day # current_day
    THEN [r EXCEPT !.current_day = current_day,
                   !.day_start_equity = equity,
                   !.intraday_high = equity,
                   !.daily_loss_limit_hit = FALSE]
    ELSE r

\* UpdateHighs that raises the intraday high only.
UpdateHighs_intraday_only(r, equity) ==
    [r EXCEPT !.intraday_high = IF equity > @ THEN equity ELSE @]

\* Lines 41-45
UpdateHighs(r, equity) ==
    [r EXCEPT !.intraday_high = IF equity > @ THEN equity ELSE @,
              !.equity_high = IF equity > @ THEN equity ELSE @]

\* _calculate_drawdown with the end-of-day mode measured from the intraday high.
_calculate_drawdown_intraday(r, cfg, equity) ==
    CASE cfg.drawdown_type = "static" -> cfg.drawdown_start_value - equity
      [] cfg.drawdown_type = "eod_trailing" -> r.intraday_high - equity
      [] cfg.drawdown_type = "intraday_trailing" -> r.intraday_high - equity
      [] OTHER -> 0

\* Lines 84-98
_calculate_drawdown(r, cfg, equity) ==
    CASE cfg.drawdown_type = "static" -> cfg.drawdown_start_value - equity
      [] cfg.drawdown_type = "eod_trailing" -> r.equity_high - equity
      [] cfg.drawdown_type = "intraday_trailing" -> r.intraday_high - equity
      [] OTHER -> 0

Status(can_trade, close_positions, violation) ==
    [can_trade |-> can_trade, close_positions |-> close_positions, violation |-> violation]

\* RiskChecks that closes only after the close time.
RiskChecks_after_close(r, cfg, current_time, equity) ==
    LET daily_pnl == equity - r.day_start_equity
        drawdown == _calculate_drawdown(r, cfg, equity)
    IN IF current_time > cfg.position_close_time
       THEN [risk |-> r, status |-> Status(FALSE, TRUE, "close_time")]
       ELSE IF daily_pnl <= -cfg.max_daily_loss
       THEN [risk |-> [r EXCEPT !.daily_loss_limit_hit = TRUE],
             status |-> Status(FALSE, TRUE, "daily_loss")]
       ELSE IF drawdown >= cfg.max_loss
       THEN [risk |-> [r EXCEPT !.max_loss_hit = TRUE],
             status |-> Status(FALSE, TRUE, "max_loss")]
       ELSE [risk |-> r, status |-> Status(TRUE, FALSE, "None")]

\* RiskChecks that lets a loss equal to the daily limit pass.
RiskChecks_strict_daily(r, cfg, current_time, equity) ==
    LET daily_pnl == equity - r.day_start_equity
        drawdown == _calculate_drawdown(r, cfg, equity)
    IN IF current_time >= cfg.position_close_time
       THEN [risk |-> r, status |-> Status(FALSE, TRUE, "close_time")]
       ELSE IF daily_pnl < -cfg.max_daily_loss
       THEN [risk |-> [r EXCEPT !.daily_loss_limit_hit = TRUE],
             status |-> Status(FALSE, TRUE, "daily_loss")]
       ELSE IF drawdown >= cfg.max_loss
       THEN [risk |-> [r EXCEPT !.max_loss_hit = TRUE],
             status |-> Status(FALSE, TRUE, "max_loss")]
       ELSE [risk |-> r, status |-> Status(TRUE, FALSE, "None")]

\* Lines 47-82: the checks, on the state the rollover and the highs left.
RiskChecks(r, cfg, current_time, equity) ==
    LET daily_pnl == equity - r.day_start_equity
        drawdown == _calculate_drawdown(r, cfg, equity)
    IN IF current_time >= cfg.position_close_time
       THEN [risk |-> r, status |-> Status(FALSE, TRUE, "close_time")]
       ELSE IF daily_pnl <= -cfg.max_daily_loss
       THEN [risk |-> [r EXCEPT !.daily_loss_limit_hit = TRUE],
             status |-> Status(FALSE, TRUE, "daily_loss")]
       ELSE IF drawdown >= cfg.max_loss
       THEN [risk |-> [r EXCEPT !.max_loss_hit = TRUE],
             status |-> Status(FALSE, TRUE, "max_loss")]
       ELSE [risk |-> r, status |-> Status(TRUE, FALSE, "None")]

RiskManager_update(r, cfg, current_day, current_time, equity) ==
    RiskChecks(UpdateHighs(RollOver(r, current_day, equity), equity),
               cfg, current_time, equity)

\* PropFirmConfig.max_contracts is Optional[int]: <<>> is None, <<n>> is n.
Caps == {<<>>} \cup {<<n>> : n \in 0..MaxCap}

\* The configurations with a contract cap: static drawdown, the widest daily
\* limit (so that either flag can be the one set), any cap.
CapConfigs ==
    {[f \in DOMAIN c \cup {"max_contracts"} |->
          IF f = "max_contracts" THEN m ELSE c[f]] :
        c \in {k \in Configs : /\ k.drawdown_type = "static"
                               /\ k.max_daily_loss = MaxLimit
                               /\ k.max_loss = 1},
        m \in Caps}

CapSymbols == {"MES", "MNQ"}
RequestSizes == (-MaxFillSize)..MaxFillSize
HeldSizes == (-MaxHeld)..MaxHeld

\* Line 111: sum(abs(p.size) for p in current_positions.values())
RECURSIVE SumAbs(_, _)
SumAbs(sizes, keys) ==
    IF keys = {} THEN 0
    ELSE LET k == CHOOSE x \in keys : TRUE
         IN Abs(sizes[k]) + SumAbs(sizes, keys \ {k})

\* Lines 107-121.  `if self.config.max_contracts:` is false for None and for 0.
can_open_position(r, cfg, size, current_positions) ==
    LET current_size == SumAbs(current_positions, DOMAIN current_positions)
    IN IF /\ cfg.max_contracts # <<>>
          /\ cfg.max_contracts[1] # 0
          /\ current_size + Abs(size) > cfg.max_contracts[1]
       THEN [risk |-> r, ret |-> <<FALSE, "Max contracts exceeded">>]
       ELSE IF r.daily_loss_limit_hit
       THEN [risk |-> r, ret |-> <<FALSE, "Daily loss limit hit">>]
       ELSE IF r.max_loss_hit
       THEN [risk |-> r, ret |-> <<FALSE, "Max loss hit">>]
       ELSE [risk |-> r, ret |-> <<TRUE, "None">>]

\* No can_open_position call yet.
NoCall ==
    [called |-> FALSE, size |-> 0, current_positions |-> [s \in CapSymbols |-> 0],
     ret |-> <<TRUE, "None">>]

Before(r) ==
    [current_day |-> r.current_day, daily_loss_limit_hit |-> r.daily_loss_limit_hit]

InitRisk(cfgs) ==
    /\ config \in cfgs
    /\ risk = NewRisk(config)
    /\ risk_in = [day |-> None, time |-> 0, equity |-> config.initial_balance]
    /\ risk_prev = Before(NewRisk(config))
    /\ risk_status = Status(TRUE, FALSE, "None")
    /\ can_open = NoCall

RiskUpdate ==
    /\ \E day \in Days, time \in Times, equity \in Equities :
          LET res == RiskManager_update(risk, config, day, time, equity)
          IN /\ risk' = res.risk
             /\ risk_status' = res.status
             /\ risk_in' = [day |-> day, time |-> time, equity |-> equity]
             /\ risk_prev' = Before(risk)
    /\ UNCHANGED <<config, can_open, omVars, position, runVars>>

\* One can_open_position call on the risk manager as it is.
CanOpenPosition ==
    /\ \E size \in RequestSizes, current_positions \in [CapSymbols -> HeldSizes] :
          LET res == can_open_position(risk, config, size, current_positions)
          IN /\ risk' = res.risk
             /\ can_open' = [called |-> TRUE, size |-> size,
                             current_positions |-> current_positions, ret |-> res.ret]
    /\ UNCHANGED <<config, risk_in, risk_prev, risk_status, omVars, position, runVars>>

----------------------------------------------------------------------------
(* BacktestEngine.  Money is counted in units of 1/6 of the default        *)
(* commission (2.50 a contract): the commission is 6 units and one point   *)
(* of MES, tick_value / tick_size = 1.25 / 0.25 = 5.00, is 12 units.  The  *)
(* timestamp of iteration t is Timeline[t]; the feed has one symbol, so    *)
(* every iteration has a bar for it.  The strategy is any strategy that    *)
(* places at most one market order per bar.                                *)

commission_per_contract == 6
PointValue == 12

RunBars == {b \in [open : Prices, high : Prices, low : Prices, close : Prices] :
               b.low <= b.open /\ b.open <= b.high /\ b.low <= b.close /\ b.close <= b.high}

\* MultiDataFeed.__iter__: the master timeline, every minute of every day.
Timeline ==
    [k \in 1..(MaxDay * (MaxTime + 1)) |->
        [day |-> ((k - 1) \div (MaxTime + 1)) + 1, time |-> (k - 1) % (MaxTime + 1)]]

\* The accounts a run is made on: the session closes inside the modelled times
\* of day or after them.
RunConfigs ==
    {[initial_balance |-> RunBalance, max_daily_loss |-> RunDailyLoss,
      max_loss |-> RunMaxLoss, drawdown_type |-> dt,
      drawdown_start_value |-> RunBalance, position_close_time |-> ct] :
        dt \in DrawdownTypes, ct \in {MaxTime, MaxTime + 1}}

NewPosition == [size |-> 0, avg_entry_price |-> Frac(0, 1), trades |-> <<>>]

RECURSIVE SeqOf(_)
SeqOf(S) == IF S = {} THEN <<>>
            ELSE LET x == CHOOSE x \in S : TRUE IN <<x>> \o SeqOf(S \ {x})

RECURSIVE CloseOrders(_, _)
CloseOrders(positions, symbols) ==
    IF symbols = <<>> THEN <<>>
    ELSE LET symbol == Head(symbols)
             pos == positions[symbol]
             side == IF pos.size > 0 THEN "sell" ELSE "buy"
             rest == CloseOrders(positions, Tail(symbols))
         IN IF pos.size # 0
            THEN <<NewOrder(symbol, side, -pos.size, "market", None, None)>> \o rest
            ELSE rest

\* OrderManager.close_all_positions
close_all_positions(positions) == CloseOrders(positions, SeqOf(DOMAIN positions))

\* contracts.calculate_pnl
calculate_pnl(entry_price, exit_price, contracts) ==
    (exit_price - entry_price) * PointValue * contracts

\* Position.unrealized_pnl, with avg_entry_price = n / d
unrealized_pnl(pos, current_price) ==
    IF pos.size = 0 THEN 0
    ELSE ((current_price * pos.avg_entry_price.d - pos.avg_entry_price.n)
              * PointValue * pos.size) \div pos.avg_entry_price.d

\* The unrealized P&L is a whole number of units.
WholeUnits(pos, current_price) ==
    ((current_price * pos.avg_entry_price.d - pos.avg_entry_price.n)
         * PointValue * pos.size) % pos.avg_entry_price.d = 0

\* Lines 303-307: the fill records that left the position open, and the last
\* of them.
OpenRecords(trades) == {i \in DOMAIN trades : trades[i].position_after # 0}

LastOpenRecord(trades) ==
    trades[CHOOSE i \in OpenRecords(trades) : \A j \in OpenRecords(trades) : j <= i]

\* _process_fill that credits the realized P&L of a closed trade to cash.
_process_fill_credit(e, order, fill_price, timestamp) ==
    LET symbol == order.symbol
        size == IF is_buy(order) THEN order.size ELSE -order.size
        prev_size == e.positions[symbol].size
        pos == Position_update(e.positions[symbol], fill_price, size, timestamp)
        commission == Abs(size) * commission_per_contract
        closed == prev_size # 0 /\ pos.size = 0
        opened == prev_size = 0 /\ pos.size # 0
        logged == symbol \in DOMAIN e.trade_log
        entry_info == e.trade_log[symbol]
        pnl == calculate_pnl(entry_info.price, fill_price, entry_info.size)
        record == [timestamp |-> timestamp, symbol |-> symbol,
                   side |-> IF entry_info.size > 0 THEN "LONG" ELSE "SHORT",
                   size |-> Abs(entry_info.size), entry_price |-> entry_info.price,
                   exit_price |-> fill_price, pnl |-> pnl, commission |-> commission,
                   net_pnl |-> pnl - commission]
        last == LastOpenRecord(pos.trades)
        call == [symbol |-> symbol, size |-> last.size, entry_price |-> last.price,
                 exit_price |-> fill_price,
                 pnl |-> calculate_pnl(last.price, fill_price, last.size)]
    IN [cash |-> e.cash - commission + (IF closed /\ logged THEN pnl ELSE 0),
        positions |-> [e.positions EXCEPT ![symbol] = pos],
        trade_log |->
            IF closed /\ logged
            THEN [x \in DOMAIN e.trade_log \ {symbol} |-> e.trade_log[x]]
            ELSE IF ~closed /\ opened
            THEN [x \in DOMAIN e.trade_log \cup {symbol} |->
                     IF x = symbol
                     THEN [price |-> fill_price, size |-> pos.size, timestamp |-> timestamp]
                     ELSE e.trade_log[x]]
            ELSE e.trade_log,
        trades |-> IF closed /\ logged THEN Append(e.trades, record) ELSE e.trades,
        notify_order |-> e.notify_order + 1,
        notify_trade |-> IF closed /\ OpenRecords(pos.trades) # {} THEN Append(e.notify_trade, call)
                         ELSE e.notify_trade]

\* BacktestEngine._process_fill on e = [cash, positions, trade_log, trades,
\* notify_order, notify_trade]
_process_fill(e, order, fill_price, timestamp) ==
    LET symbol == order.symbol
        size == IF is_buy(order) THEN order.size ELSE -order.size
        prev_size == e.positions[symbol].size
        pos == Position_update(e.positions[symbol], fill_price, size, timestamp)
        commission == Abs(size) * commission_per_contract
        closed == prev_size # 0 /\ pos.size = 0
        opened == prev_size = 0 /\ pos.size # 0
        logged == symbol \in DOMAIN e.trade_log
        entry_info == e.trade_log[symbol]
        pnl == calculate_pnl(entry_info.price, fill_price, entry_info.size)
        record == [timestamp |-> timestamp, symbol |-> symbol,
                   side |-> IF entry_info.size > 0 THEN "LONG" ELSE "SHORT",
                   size |-> Abs(entry_info.size), entry_price |-> entry_info.price,
                   exit_price |-> fill_price, pnl |-> pnl, commission |-> commission,
                   net_pnl |-> pnl - commission]
        last == LastOpenRecord(pos.trades)
        call == [symbol |-> symbol, size |-> last.size, entry_price |-> last.price,
                 exit_price |-> fill_price,
                 pnl |-> calculate_pnl(last.price, fill_price, last.size)]
    IN [cash |-> e.cash - commission,
        positions |-> [e.positions EXCEPT ![symbol] = pos],
        trade_log |->
            IF closed /\ logged
            THEN [x \in DOMAIN e.trade_log \ {symbol} |-> e.trade_log[x]]
            ELSE IF ~closed /\ opened
            THEN [x \in DOMAIN e.trade_log \cup {symbol} |->
                     IF x = symbol
                     THEN [price |-> fill_price, size |-> pos.size, timestamp |-> timestamp]
                     ELSE e.trade_log[x]]
            ELSE e.trade_log,
        trades |-> IF closed /\ logged THEN Append(e.trades, record) ELSE e.trades,
        notify_order |-> e.notify_order + 1,
        notify_trade |-> IF closed /\ OpenRecords(pos.trades) # {} THEN Append(e.notify_trade, call)
                         ELSE e.notify_trade]

\* Lines 224-225: every fill of the pass, in the order the pass returned them.
RECURSIVE ProcessFills(_, _, _, _, _)
ProcessFills(e, ords, fs, i, timestamp) ==
    IF i > Len(fs) THEN e
    ELSE ProcessFills(_process_fill(e, ords[fs[i][1]], fs[i][2], timestamp),
                      ords, fs, i + 1, timestamp)

RECURSIVE PositionsValue(_, _, _)
PositionsValue(positions, bars, symbols) ==
    IF symbols = {} THEN 0
    ELSE LET x == CHOOSE x \in symbols : TRUE
         IN (IF positions[x].size # 0 /\ x \in DOMAIN bars
             THEN unrealized_pnl(positions[x], bars[x].close) ELSE 0)
            + PositionsValue(positions, bars, symbols \ {x})

\* BacktestEngine._update_equity: the equity sample of a bar
_update_equity(cash, positions, bars, timestamp) ==
    LET positions_value == PositionsValue(positions, bars, DOMAIN positions)
    IN [timestamp |-> timestamp, equity |-> cash + positions_value,
        cash |-> cash, positions_value |-> positions_value]

\* BaseStrategy.close: a flat position places nothing.
close(om, positions, symbol) ==
    LET pos == positions[symbol]
    IN IF pos.size = 0 THEN om
       ELSE IF pos.size > 0
       THEN submit_order(om, NewOrder(symbol, "sell", pos.size, "market", None, None))
       ELSE submit_order(om, NewOrder(symbol, "buy", Abs(pos.size), "market", None, None))

\* What one strategy.next() may leave of the order manager: nothing placed,
\* buy() or sell() of 1..MaxRunSize contracts at the market, or close().
next(om, positions) ==
    {om}
    \cup (IF Len(om.orders) < MaxRunOrders
          THEN {submit_order(om, NewOrder(s, d, n, "market", None, None)) :
                    s \in Symbols, d \in Sides, n \in 1..MaxRunSize}
               \cup {close(om, positions, s) : s \in Symbols}
          ELSE {})

InitEngine ==
    /\ engine = [pc |-> "running", t |-> 0,
                 cash |-> config.initial_balance, equity |-> config.initial_balance,
                 positions |-> [s \in Symbols |-> NewPosition], trade_log |-> <<>>]
    /\ results = [trades |-> <<>>, equity_curve |-> <<>>]
    /\ callbacks = [next |-> 0, notify_order |-> 0, notify_trade |-> <<>>]
    /\ step = [close_orders |-> <<>>, matched |-> FALSE]

\* RunStep with strategy.next() called before the can_trade test's `continue`.
RunStep_next_on_skip ==
    /\ engine.pc = "running"
    /\ engine.t < Len(Timeline)
    /\ \E bar_data \in [Symbols -> RunBars] :
          LET t == engine.t + 1
              timestamp == Timeline[t]
              res == RiskManager_update(risk, config, timestamp.day, timestamp.time,
                                        engine.equity)
              close_orders == IF res.status.close_positions
                              THEN close_all_positions(engine.positions) ELSE <<>>
              st == process_pending(OM, bar_data)
              e == ProcessFills([cash |-> engine.cash, positions |-> engine.positions,
                                 trade_log |-> engine.trade_log, trades |-> results.trades,
                                 notify_order |-> callbacks.notify_order,
                                 notify_trade |-> callbacks.notify_trade],
                                st.orders, st.fills, 1, t)
              point == _update_equity(e.cash, e.positions, bar_data, t)
          IN /\ risk' = res.risk
             /\ risk_status' = res.status
             /\ risk_in' = [day |-> timestamp.day, time |-> timestamp.time,
                            equity |-> engine.equity]
             /\ risk_prev' = Before(risk)
             /\ IF close_orders # <<>>
                THEN \* line 213: Order has no attribute OrderStatus; the
                     \* AttributeError leaves run() before submit_order
                     /\ engine' = [engine EXCEPT !.pc = "raised", !.t = t]
                     /\ step' = [close_orders |-> close_orders, matched |-> FALSE]
                     /\ NoPass
                     /\ UNCHANGED <<orders, pending, oco_groups, bracket_children,
                                    results, callbacks>>
                ELSE IF ~res.status.can_trade
                THEN /\ engine' = [engine EXCEPT !.t = t]
                     /\ step' = [close_orders |-> close_orders, matched |-> FALSE]
                     /\ NoPass
                     /\ \E om \in next(OM, engine.positions) : SetOM(om)
                     /\ callbacks' = [callbacks EXCEPT !.next = @ + 1]
                     /\ UNCHANGED results
                ELSE /\ \A s \in Symbols : WholeUnits(e.positions[s], bar_data[s].close)
                     /\ \E om \in next([orders |-> st.orders, pending |-> st.pending,
                                        oco_groups |-> st.oco_groups,
                                        bracket_children |-> st.bracket_children],
                                       e.positions) : SetOM(om)
                     /\ fills' = st.fills
                     /\ ocoCancelled' = st.ocoCancelled
                     /\ activated' = st.activated
                     /\ cur_bar' = bar_data
                     /\ engine' = [engine EXCEPT !.t = t, !.cash = e.cash,
                                                 !.equity = point.equity,
                                                 !.positions = e.positions,
                                                 !.trade_log = e.trade_log]
                     /\ results' = [trades |-> e.trades,
                                    equity_curve |-> Append(results.equity_curve, point)]
                     /\ callbacks' = [next |-> callbacks.next + 1,
                                      notify_order |-> e.notify_order,
                                      notify_trade |-> e.notify_trade]
                     /\ step' = [close_orders |-> close_orders, matched |-> TRUE]
    /\ UNCHANGED <<ret, brackets, bracket_args, twin, position, config, can_open, feed, look>>

\* One iteration of the loop of run() (lines 203-231).
RunStep ==
    /\ engine.pc = "running"
    /\ engine.t < Len(Timeline)
    /\ \E bar_data \in [Symbols -> RunBars] :
          LET t == engine.t + 1
              timestamp == Timeline[t]
              res == RiskManager_update(risk, config, timestamp.day, timestamp.time,
                                        engine.equity)
              close_orders == IF res.status.close_positions
                              THEN close_all_positions(engine.positions) ELSE <<>>
              st == process_pending(OM, bar_data)
              e == ProcessFills([cash |-> engine.cash, positions |-> engine.positions,
                                 trade_log |-> engine.trade_log, trades |-> results.trades,
                                 notify_order |-> callbacks.notify_order,
                                 notify_trade |-> callbacks.notify_trade],
                                st.orders, st.fills, 1, t)
              point == _update_equity(e.cash, e.positions, bar_data, t)
          IN /\ risk' = res.risk
             /\ risk_status' = res.status
             /\ risk_in' = [day |-> timestamp.day, time |-> timestamp.time,
                            equity |-> engine.equity]
             /\ risk_prev' = Before(risk)
             /\ IF close_orders # <<>>
                THEN \* line 213: Order has no attribute OrderStatus; the
                     \* AttributeError leaves run() before submit_order
                     /\ engine' = [engine EXCEPT !.pc = "raised", !.t = t]
                     /\ step' = [close_orders |-> close_orders, matched |-> FALSE]
                     /\ NoPass
                     /\ UNCHANGED <<orders, pending, oco_groups, bracket_children,
                                    results, callbacks>>
                ELSE IF ~res.status.can_trade
                THEN \* lines 216-218: continue
                     /\ engine' = [engine EXCEPT !.t = t]
                     /\ step' = [close_orders |-> close_orders, matched |-> FALSE]
                     /\ NoPass
                     /\ UNCHANGED <<orders, pending, oco_groups, bracket_children,
                                    results, callbacks>>
                ELSE /\ \A s \in Symbols : WholeUnits(e.positions[s], bar_data[s].close)
                     /\ \E om \in next([orders |-> st.orders, pending |-> st.pending,
                                        oco_groups |-> st.oco_groups,
                                        bracket_children |-> st.bracket_children],
                                       e.positions) : SetOM(om)
                     /\ fills' = st.fills
                     /\ ocoCancelled' = st.ocoCancelled
                     /\ activated' = st.activated
                     /\ cur_bar' = bar_data
                     /\ engine' = [engine EXCEPT !.t = t, !.cash = e.cash,
                                                 !.equity = point.equity,
                                                 !.positions = e.positions,
                                                 !.trade_log = e.trade_log]
                     /\ results' = [trades |-> e.trades,
                                    equity_curve |-> Append(results.equity_curve, point)]
                     /\ callbacks' = [next |-> callbacks.next + 1,
                                      notify_order |-> e.notify_order,
                                      notify_trade |-> e.notify_trade]
                     /\ step' = [close_orders |-> close_orders, matched |-> TRUE]
    /\ UNCHANGED <<ret, brackets, bracket_args, twin, position, config, can_open, feed, look>>

\* Lines 233-236: the timeline is exhausted and run() returns the results.
RunFinish ==
    /\ engine.pc = "running"
    /\ engine.t = Len(Timeline)
    /\ engine' = [engine EXCEPT !.pc = "done"]
    /\ UNCHANGED <<omVars, position, riskVars, results, callbacks, step, feed, look>>

----------------------------------------------------------------------------
(* MultiDataFeed.  A timestamp is a whole number of minutes.  A row of a   *)
(* feed's frame is its index label (name) and its close.                   *)

FeedSymbols == {"MES", "MNQ"}
Stamps == 1..MaxStamp
Rows == [name : Stamps, close : Prices]
Frames == UNION {[1..n -> Rows] : n \in 1..MaxRows}

\* DataFeed._validate_data, line 44: the frames sort_index() can return.  The
\* default sort is not stable: rows of equal label come in either order.
sort_index(data) ==
    {d \in [DOMAIN data -> Range(data)] :
        /\ \A r \in Range(data) : Cardinality({i \in DOMAIN d : d[i] = r})
                                     = Cardinality({i \in DOMAIN data : data[i] = r})
        /\ \A i, j \in DOMAIN d : i < j => d[i].name <= d[j].name}

\* Lines 116-121: every minute from the earliest first label to the latest last.
master_index(feeds) ==
    LET firsts == {feeds[sym][1].name : sym \in DOMAIN feeds}
        lasts == {feeds[sym][Len(feeds[sym])].name : sym \in DOMAIN feeds}
        master_start == CHOOSE x \in firsts : \A y \in firsts : x <= y
        master_end == CHOOSE x \in lasts : \A y \in lasts : x >= y
    IN [k \in 1..(master_end - master_start + 1) |-> master_start + k - 1]

\* valid_data taking only the rows before the timestamp.
valid_data_strict(data, timestamp) ==
    SelectSeq(data, LAMBDA r : r.name < timestamp)

\* Line 127: feed.data[feed.data.index <= timestamp]
valid_data(data, timestamp) ==
    SelectSeq(data, LAMBDA r : r.name <= timestamp)

\* Lines 124-129: the bar mapping of one timestamp.
BarAt(feeds, timestamp) ==
    [sym \in {x \in DOMAIN feeds : Len(valid_data(feeds[x], timestamp)) > 0} |->
        LET valid == valid_data(feeds[sym], timestamp) IN valid[Len(valid)]]

\* MultiDataFeed() after add_data for every symbol; nothing iterated yet.
NewFeed(feeds) ==
    [feeds |-> feeds, pc |-> "start", k |-> 0, timestamp |-> None,
     bar |-> [sym \in {} |-> None]]

InitFeed(frames) ==
    /\ feed \in {NewFeed(f) : f \in [FeedSymbols -> UNION {sort_index(d) : d \in frames}]}
    /\ look = [seen |-> <<>>, matched |-> <<>>]

\* Positions of the master timeline after k whose bar mapping is not empty (line 131).
Yielding(k) ==
    LET index == master_index(feed.feeds)
    IN {j \in (k + 1)..Len(index) : DOMAIN BarAt(feed.feeds, index[j]) # {}}

\* The generator runs to its next yield.
FeedYield ==
    /\ feed.pc # "done"
    /\ Yielding(feed.k) # {}
    /\ LET index == master_index(feed.feeds)
           j == CHOOSE x \in Yielding(feed.k) : \A y \in Yielding(feed.k) : x <= y
       IN feed' = [feed EXCEPT !.pc = "yielded", !.k = j, !.timestamp = index[j],
                               !.bar = BarAt(feed.feeds, index[j])]
    /\ UNCHANGED <<omVars, position, riskVars, engine, results, callbacks, step, look>>

\* The generator runs off the end of the master timeline.
FeedStop ==
    /\ feed.pc # "done"
    /\ Yielding(feed.k) = {}
    /\ feed' = [feed EXCEPT !.pc = "done"]
    /\ UNCHANGED <<omVars, position, riskVars, engine, results, callbacks, step, look>>

----------------------------------------------------------------------------
(* BacktestEngine.run over a MultiDataFeed.  The bars of a row are flat:   *)
(* open, high, low and close are the row's close.  Timestamps are the      *)
(* minutes of one day, all before the close time.                          *)

BarOf(row) == [open |-> row.close, high |-> row.close, low |-> row.close,
               close |-> row.close]

LookConfig ==
    [initial_balance |-> RunBalance, max_daily_loss |-> RunDailyLoss,
     max_loss |-> RunMaxLoss, drawdown_type |-> "static",
     drawdown_start_value |-> RunBalance, position_close_time |-> MaxStamp + 1]

\* The frames of the run over a feed: any frame for the symbol traded, one
\* row of close 1 at any minute for the other.
LookFrames(sym) ==
    IF sym \in Symbols THEN UNION {sort_index(d) : d \in Frames}
    ELSE {<<[name |-> n, close |-> 1]>> : n \in Stamps}

\* One iteration of the loop of run() (lines 203-231) on what the feed's
\* generator yields next (data.py 123-132).
LookStep ==
    /\ engine.pc = "running"
    /\ feed.pc # "done"
    /\ Yielding(feed.k) # {}
    /\ LET index == master_index(feed.feeds)
           j == CHOOSE x \in Yielding(feed.k) : \A y \in Yielding(feed.k) : x <= y
           timestamp == index[j]
           rows == BarAt(feed.feeds, timestamp)
           bar_data == [sym \in DOMAIN rows |-> BarOf(rows[sym])]
           res == RiskManager_update(risk, config, 1, timestamp, engine.equity)
           close_orders == IF res.status.close_positions
                           THEN close_all_positions(engine.positions) ELSE <<>>
           st == process_pending(OM, bar_data)
           e == ProcessFills([cash |-> engine.cash, positions |-> engine.positions,
                              trade_log |-> engine.trade_log, trades |-> results.trades,
                              notify_order |-> callbacks.notify_order,
                              notify_trade |-> callbacks.notify_trade],
                             st.orders, st.fills, 1, timestamp)
           point == _update_equity(e.cash, e.positions, bar_data, timestamp)
           presented(sym) == IF sym \in DOMAIN rows THEN rows[sym].name ELSE None
       IN /\ feed' = [feed EXCEPT !.pc = "yielded", !.k = j, !.timestamp = timestamp,
                                  !.bar = rows]
          /\ risk' = res.risk
          /\ risk_status' = res.status
          /\ risk_in' = [day |-> 1, time |-> timestamp, equity |-> engine.equity]
          /\ risk_prev' = Before(risk)
          /\ IF close_orders # <<>>
             THEN \* line 213 raises AttributeError
                  /\ engine' = [engine EXCEPT !.pc = "raised", !.t = j]
                  /\ step' = [close_orders |-> close_orders, matched |-> FALSE]
                  /\ NoPass
                  /\ UNCHANGED <<orders, pending, oco_groups, bracket_children,
                                 results, callbacks, look>>
             ELSE IF ~res.status.can_trade
             THEN \* lines 216-218: continue
                  /\ engine' = [engine EXCEPT !.t = j]
                  /\ step' = [close_orders |-> close_orders, matched |-> FALSE]
                  /\ NoPass
                  /\ UNCHANGED <<orders, pending, oco_groups, bracket_children,
                                 results, callbacks, look>>
             ELSE /\ \A s \in Symbols \cap DOMAIN bar_data :
                        WholeUnits(e.positions[s], bar_data[s].close)
                  /\ \E om \in next([orders |-> st.orders, pending |-> st.pending,
                                     oco_groups |-> st.oco_groups,
                                     bracket_children |-> st.bracket_children],
                                    e.positions) :
                        /\ SetOM(om)
                        /\ look' =
                              [seen |-> [id \in DOMAIN om.orders |->
                                            IF id \in DOMAIN look.seen THEN look.seen[id]
                                            ELSE [step |-> j,
                                                  bar |-> presented(om.orders[id].symbol)]],
                               matched |-> [id \in DOMAIN look.matched
                                                  \cup {st.fills[k][1] : k \in DOMAIN st.fills} |->
                                               IF id \in DOMAIN look.matched
                                               THEN look.matched[id]
                                               ELSE [step |-> j,
                                                     bar |-> presented(st.orders[id].symbol)]]]
                  /\ fills' = st.fills
                  /\ ocoCancelled' = st.ocoCancelled
                  /\ activated' = st.activated
                  /\ cur_bar' = bar_data
                  /\ engine' = [engine EXCEPT !.t = j, !.cash = e.cash,
                                              !.equity = point.equity,
                                              !.positions = e.positions,
                                              !.trade_log = e.trade_log]
                  /\ results' = [trades |-> e.trades,
                                 equity_curve |-> Append(results.equity_curve, point)]
                  /\ callbacks' = [next |-> callbacks.next + 1,
                                   notify_order |-> e.notify_order,
                                   notify_trade |-> e.notify_trade]
                  /\ step' = [close_orders |-> close_orders, matched |-> TRUE]
    /\ UNCHANGED <<ret, brackets, bracket_args, twin, position, config, can_open>>

\* The generator is exhausted and run() returns the results (lines 233-236).
LookFinish ==
    /\ engine.pc = "running"
    /\ feed.pc # "done"
    /\ Yielding(feed.k) = {}
    /\ engine' = [engine EXCEPT !.pc = "done"]
    /\ feed' = [feed EXCEPT !.pc = "done"]
    /\ UNCHANGED <<omVars, position, riskVars, results, callbacks, step, look>>

----------------------------------------------------------------------------
(* The order manager with its dictionaries keyed as in the code.  An       *)
(* order_id or oco_id is str(uuid.uuid4())[:8], one of 2^32 values: here a *)
(* draw from Ids.  objs are the Order objects in the order they were made; *)
(* orders, oco_groups and bracket_children are the dictionaries, pending   *)
(* is the list of objects, log is every fill the passes returned.  Two     *)
(* order managers get the same calls: one with the ids as drawn, one with  *)
(* pairwise distinct ids.                                                  *)

Ids == 1..MaxIds
FreshId(i) == MaxIds + i

\* The orders the two order managers are given.
IdInputs ==
    {NewOrder(s, "buy", DefaultSize, "market", None, None) : s \in Symbols}
    \cup UNION {{NewOrder(s, "buy", DefaultSize, "limit", p, None) : s \in Symbols} :
                   p \in Prices}

\* Order(...): the dataclass gives the object its order_id (line 48).
WithId(order, order_id) ==
    [f \in DOMAIN order \cup {"order_id"} |->
        IF f = "order_id" THEN order_id ELSE order[f]]

\* d[k] = v on a dictionary
Put(d, k, v) == [x \in DOMAIN d \cup {k} |-> IF x = k THEN v ELSE d[x]]

\* Lines 150-161, on the keyed order manager
keyed_submit_order(km, order) ==
    LET idx == Len(km.objs) + 1
        group == IF order.oco_id \in DOMAIN km.oco_groups
                 THEN km.oco_groups[order.oco_id] ELSE <<>>
    IN [km EXCEPT !.objs = Append(@, order),
                  !.orders = Put(@, order.order_id, idx),
                  !.pending = Append(@, idx),
                  !.oco_groups = IF order.oco_id # None
                                 THEN Put(@, order.oco_id, Append(group, order.order_id))
                                 ELSE @]

\* Lines 211-240, on the keyed order manager
keyed_submit_bracket_order(km, entry_order, tp_order, sl_order) ==
    LET s1 == keyed_submit_order(km, entry_order)
        e == Len(s1.objs)
    IN [s1 EXCEPT !.bracket_children = Put(@, entry_order.order_id, <<e + 1, e + 2>>),
                  !.objs = @ \o <<tp_order, sl_order>>,
                  !.orders = Put(Put(@, tp_order.order_id, e + 1), sl_order.order_id, e + 2)]

\* Lines 317-329: the children stored under the filled order's id.
KeyedActivate(st, idx, oco_id) ==
    LET order_id == st.objs[idx].order_id
    IN IF order_id \notin DOMAIN st.bracket_children THEN st
       ELSE LET tp == st.bracket_children[order_id][1]
                sl == st.bracket_children[order_id][2]
            IN [st EXCEPT !.objs = [@ EXCEPT ![tp].oco_id = oco_id, ![sl].oco_id = oco_id],
                          !.oco_groups = Put(@, oco_id, <<st.objs[tp].order_id,
                                                          st.objs[sl].order_id>>),
                          !.pending = @ \o <<tp, sl>>,
                          !.bracket_children =
                              [p \in DOMAIN @ \ {order_id} |-> @[p]]]

\* Lines 331-337: the orders the group's ids lead to in the orders dictionary.
KeyedCancel(st, idx) ==
    LET order == st.objs[idx]
        linked == IF order.oco_id # None /\ order.oco_id \in DOMAIN st.oco_groups
                  THEN Range(st.oco_groups[order.oco_id]) ELSE {}
        hit == {st.orders[i] : i \in {x \in linked : x # order.order_id
                                                     /\ x \in DOMAIN st.orders}}
    IN [st EXCEPT !.objs = [i \in DOMAIN @ |->
                               IF i \in hit /\ is_active(@[i])
                               THEN [@[i] EXCEPT !.status = "cancelled"]
                               ELSE @[i]]]

\* Lines 311-337
KeyedFill(st, idx, fill_price, oco_id) ==
    LET s1 == [st EXCEPT !.objs[idx].fill_price = fill_price,
                         !.objs[idx].status = "filled",
                         !.fills = Append(@, <<idx, fill_price>>)]
    IN KeyedCancel(KeyedActivate(s1, idx, oco_id), idx)

\* Lines 285-339; new_oco[idx] is the oco_id uuid4 gives when object idx
\* activates its children.
RECURSIVE KeyedLoop(_, _, _, _)
KeyedLoop(st, bars, new_oco, i) ==
    IF i > Len(st.pending) THEN st
    ELSE LET idx == st.pending[i]
             order == st.objs[idx]
             keep == [st EXCEPT !.still_pending = Append(@, idx)]
         IN IF order.symbol \notin DOMAIN bars THEN KeyedLoop(keep, bars, new_oco, i + 1)
            ELSE LET fill_price == MatchPrice(order, bars[order.symbol])
                 IN IF fill_price # None
                    THEN KeyedLoop(KeyedFill(st, idx, fill_price, new_oco[idx]),
                                   bars, new_oco, i + 1)
                    ELSE KeyedLoop(keep, bars, new_oco, i + 1)

\* Lines 277-342, on the keyed order manager
keyed_process_pending(km, bars, new_oco) ==
    LET st0 == [objs |-> km.objs, orders |-> km.orders, pending |-> km.pending,
                oco_groups |-> km.oco_groups, bracket_children |-> km.bracket_children,
                fills |-> <<>>, still_pending |-> <<>>]
        st == KeyedLoop(st0, bars, new_oco, 1)
    IN [objs |-> st.objs, orders |-> st.orders, pending |-> st.still_pending,
        oco_groups |-> st.oco_groups, bracket_children |-> st.bracket_children,
        log |-> km.log \o st.fills]

\* Both order managers are given one order.
TwinSubmitOrder ==
    /\ Len(twin.drawn.objs) + 1 <= MaxIdObjs
    /\ \E order \in IdInputs, order_id \in Ids :
          LET n == Len(twin.drawn.objs)
          IN twin' = [drawn |-> keyed_submit_order(twin.drawn, WithId(order, order_id)),
                      fresh |-> keyed_submit_order(twin.fresh,
                                                   WithId(order, FreshId(n + 1)))]
    /\ UNCHANGED <<orders, pending, oco_groups, bracket_children, fills, ret, cur_bar,
                   ocoCancelled, activated, brackets, bracket_args,
                   position, riskVars, runVars>>

\* Both order managers are given one bracket.
TwinSubmitBracket ==
    /\ Len(twin.drawn.objs) + 3 <= MaxIdObjs
    /\ \E entry \in IdInputs, tp_price \in Prices, sl_price \in Prices,
          id \in [1..3 -> Ids] :
          LET tp == NewOrder(entry.symbol, "sell", entry.size, "limit", tp_price, None)
              sl == NewOrder(entry.symbol, "sell", entry.size, "stop", None, sl_price)
              n == Len(twin.drawn.objs)
          IN twin' = [drawn |-> keyed_submit_bracket_order(twin.drawn,
                                    WithId(entry, id[1]), WithId(tp, id[2]),
                                    WithId(sl, id[3])),
                      fresh |-> keyed_submit_bracket_order(twin.fresh,
                                    WithId(entry, FreshId(n + 1)), WithId(tp, FreshId(n + 2)),
                                    WithId(sl, FreshId(n + 3)))]
    /\ UNCHANGED <<orders, pending, oco_groups, bracket_children, fills, ret, cur_bar,
                   ocoCancelled, activated, brackets, bracket_args,
                   position, riskVars, runVars>>

\* Both order managers make a pass over the same bars.
TwinProcessPending ==
    /\ \E bars \in BarMaps,
          new_oco \in [{i \in DOMAIN twin.drawn.objs :
                           twin.drawn.objs[i].order_id \in DOMAIN twin.drawn.bracket_children}
                       -> Ids] :
          twin' = [drawn |-> keyed_process_pending(twin.drawn, bars, new_oco),
                   fresh |-> keyed_process_pending(twin.fresh, bars,
                                                   [i \in 1..MaxIdObjs |-> FreshId(i)])]
    /\ UNCHANGED <<orders, pending, oco_groups, bracket_children, fills, ret, cur_bar,
                   ocoCancelled, activated, brackets, bracket_args,
                   position, riskVars, runVars>>

----------------------------------------------------------------------------
(* BaseStrategy.buy_bracket and sell_bracket.  Prices are in points and a  *)
(* point of MES is 1 / tick_size = 4 ticks; the tick counts are whole      *)
(* points, and the inputs are those that give positive child prices.       *)

TicksPerPoint == 4
TickCounts == {TicksPerPoint}
EntryTypes == {"market", "limit"}

\* Lines 61-65: feed.current() is the row at DataFeed._idx, which nothing in
\* the engine or MultiDataFeed.__iter__ advances: the first row's close.
get_close(symbol) == feed.feeds[symbol][1].close

\* Lines 182-248
buy_bracket(om, symbol, size, take_profit_ticks, stop_loss_ticks, price, exectype) ==
    LET entry_price == IF price # None THEN price ELSE get_close(symbol)
        tp_price == entry_price + take_profit_ticks \div TicksPerPoint
        sl_price == entry_price - stop_loss_ticks \div TicksPerPoint
        entry_order == NewOrder(symbol, "buy", size, exectype, price, None)
        tp_order == NewOrder(symbol, "sell", size, "limit", tp_price, None)
        sl_order == NewOrder(symbol, "sell", size, "stop", None, sl_price)
    IN submit_bracket_order(om, entry_order, tp_order, sl_order)

\* Lines 250-316
sell_bracket(om, symbol, size, take_profit_ticks, stop_loss_ticks, price, exectype) ==
    LET entry_price == IF price # None THEN price ELSE get_close(symbol)
        tp_price == entry_price - take_profit_ticks \div TicksPerPoint
        sl_price == entry_price + stop_loss_ticks \div TicksPerPoint
        entry_order == NewOrder(symbol, "sell", size, exectype, price, None)
        tp_order == NewOrder(symbol, "buy", size, "limit", tp_price, None)
        sl_order == NewOrder(symbol, "buy", size, "stop", None, sl_price)
    IN submit_bracket_order(om, entry_order, tp_order, sl_order)

\* The price argument that goes with an entry type.
EntryPrices(exectype) == IF exectype = "market" THEN {None} ELSE Prices

\* What a bracket call leaves besides the order manager's state.
Bracketed(om, side, take_profit_ticks, stop_loss_ticks) ==
    LET n == Len(orders)
    IN /\ om.orders[n + 2].price > 0
       /\ om.orders[n + 3].stop_price > 0
       /\ SetOM(om)
       /\ brackets' = brackets \cup {<<n + 1, n + 2, n + 3>>}
       /\ bracket_args' =
              [e \in DOMAIN bracket_args \cup {n + 1} |->
                  IF e = n + 1
                  THEN [side |-> side, take_profit_ticks |-> take_profit_ticks,
                        stop_loss_ticks |-> stop_loss_ticks]
                  ELSE bracket_args[e]]
       /\ ret' = "None"
       /\ NoPass
       /\ UNCHANGED <<twin, position, riskVars, runVars>>

BuyBracket ==
    /\ Len(orders) + 3 <= MaxOrders
    /\ \E symbol \in Symbols, tp \in TickCounts, sl \in TickCounts, exectype \in EntryTypes :
          \E price \in EntryPrices(exectype) :
              Bracketed(buy_bracket(OM, symbol, DefaultSize, tp, sl, price, exectype),
                        "buy", tp, sl)

SellBracket ==
    /\ Len(orders) + 3 <= MaxOrders
    /\ \E symbol \in Symbols, tp \in TickCounts, sl \in TickCounts, exectype \in EntryTypes :
          \E price \in EntryPrices(exectype) :
              Bracketed(sell_bracket(OM, symbol, DefaultSize, tp, sl, price, exectype),
                        "sell", tp, sl)

----------------------------------------------------------------------------
(* Specifications *)

\* The feeds of the bracket specification: one row a symbol, of any close.
BracketFrames == {<<[name |-> 1, close |-> c]>> : c \in Prices}

\* The feed of the specifications that never iterate it: one bar a symbol.
IdleFrames == {<<[name |-> 1, close |-> 1]>>}

\* The configuration of the specifications that never call the risk manager.
IdleConfig ==
    [initial_balance |-> MaxEquity - 1, max_daily_loss |-> MaxLimit, max_loss |-> MaxLimit,
     drawdown_type |-> "static", drawdown_start_value |-> MaxEquity - 1,
     position_close_time |-> MaxTime]

Init == InitOM /\ InitPosition /\ InitRisk({IdleConfig}) /\ InitEngine /\ InitFeed(IdleFrames)

InitAnyConfig == InitOM /\ InitPosition /\ InitRisk(Configs) /\ InitEngine /\ InitFeed(IdleFrames)

InitCap == InitOM /\ InitPosition /\ InitRisk(CapConfigs) /\ InitEngine /\ InitFeed(IdleFrames)

InitFrames ==
    InitOM /\ InitPosition /\ InitRisk({IdleConfig}) /\ InitEngine /\ InitFeed(Frames)

InitBracket ==
    InitOM /\ InitPosition /\ InitRisk({IdleConfig}) /\ InitEngine /\ InitFeed(BracketFrames)

InitLook ==
    /\ InitOM /\ InitPosition /\ InitRisk({LookConfig}) /\ InitEngine
    /\ feed \in {NewFeed(f) :
                    f \in {g \in [FeedSymbols -> UNION {LookFrames(x) : x \in FeedSymbols}] :
                              \A x \in FeedSymbols : g[x] \in LookFrames(x)}}
    /\ look = [seen |-> <<>>, matched |-> <<>>]

\* The configurations of a run under a contract cap of 1: static drawdown,
\* no session close within the timeline.
CapRunConfigs ==
    {[f \in DOMAIN c \cup {"max_contracts"} |->
          IF f = "max_contracts" THEN <<1>> ELSE c[f]] :
        c \in {k \in RunConfigs : /\ k.position_close_time = MaxTime + 1
                                  /\ k.drawdown_type = "static"}}

InitCapRun ==
    InitOM /\ InitPosition /\ InitRisk(CapRunConfigs) /\ InitEngine /\ InitFeed(IdleFrames)

InitRun == InitOM /\ InitPosition /\ InitRisk(RunConfigs) /\ InitEngine /\ InitFeed(IdleFrames)

\* The order manager under every sequence of its operations.
NextOrders ==
    \/ SubmitOrder
    \/ SubmitOcoPair
    \/ SubmitBracket
    \/ CancelOrder
    \/ CancelAll
    \/ ProcessPending

SpecOrders == Init /\ [][NextOrders]_vars

\* The order manager given orders of any kind, and its passes.
NextKinds ==
    \/ SubmitAnyKind
    \/ ProcessPending

SpecKinds == Init /\ [][NextKinds]_vars

\* One position under every sequence of fills.
NextPosition == PositionUpdate

SpecPosition == Init /\ [][NextPosition]_vars

\* The risk manager of any configuration under every sequence of update calls.
NextRisk == RiskUpdate

SpecRisk == InitAnyConfig /\ [][NextRisk]_vars

\* The risk manager of a capped configuration: updates and admission checks.
NextCanOpen ==
    \/ RiskUpdate
    \/ CanOpenPosition

SpecCanOpen == InitCap /\ [][NextCanOpen]_vars

\* One iteration over a feed of two symbols, for every pair of frames.
NextFeed ==
    \/ FeedYield
    \/ FeedStop

SpecFeed == InitFrames /\ [][NextFeed]_vars

\* A strategy's bracket calls and the order manager's passes.
NextBracket ==
    \/ BuyBracket
    \/ SellBracket
    \/ ProcessPending

SpecBracket == InitBracket /\ [][NextBracket]_vars

\* Two order managers given the same orders, brackets and bars.
NextTwin ==
    \/ TwinSubmitOrder
    \/ TwinSubmitBracket
    \/ TwinProcessPending

SpecTwin == Init /\ [][NextTwin]_vars

\* One run of the engine over a feed of two symbols, for every strategy.
NextLook ==
    \/ LookStep
    \/ LookFinish

SpecLook == InitLook /\ [][NextLook]_vars

\* One run of the engine under a contract cap.
NextCapRun ==
    \/ RunStep
    \/ RunFinish

SpecCapRun == InitCapRun /\ [][NextCapRun]_vars

\* One run of the engine, for every feed and every strategy.
NextRun ==
    \/ RunStep
    \/ RunFinish

SpecRun == InitRun /\ [][NextRun]_vars

----------------------------------------------------------------------------
(* Properties *)

FillIds(fs) == {fs[k][1] : k \in DOMAIN fs}
Terminal == {"filled", "cancelled", "rejected"}

\* C1: in every OCO group, whether submit_oco_pair or a bracket activation
\* made it, at most one member has status filled.
C1_OcoAtMostOneFilled ==
    \A g \in DOMAIN oco_groups :
        Cardinality({id \in Range(oco_groups[g]) : is_filled(orders[id])}) <= 1

\* C2: every order a pass cancelled as the OCO sibling of a fill is cancelled
\* when the pass returns and is not among the fills the pass returns.
C2_SiblingsCancelledInPass ==
    \A id \in ocoCancelled :
        orders[id].status = "cancelled" /\ id \notin FillIds(fills)

\* C3: an order that is filled or cancelled is not returned as a fill by any
\* later pass, and an order a pass cancels is not returned by that pass.
C3_NoRematch ==
    [][/\ \A id \in DOMAIN orders :
            orders[id].status \in {"filled", "cancelled"} => id \notin FillIds(fills')
       /\ \A id \in ocoCancelled' : id \notin FillIds(fills')]_vars

\* C4: once an order's status is filled, cancelled or rejected, no operation
\* changes it.
C4_TerminalIsFinal ==
    [][\A id \in DOMAIN orders :
          orders[id].status \in Terminal => orders'[id].status = orders[id].status]_vars

C6_ChildrenWaitOnePass ==
    \A id \in activated :
        /\ id \in Range(pending)
        /\ orders[id].oco_id # None
        /\ id \notin FillIds(fills)
        /\ ~is_filled(orders[id])

\* C7: every Position.update leaves size = prior size + signed fill size.
C7_SizeIsSum ==
    [][Len(position'.trades) = Len(position.trades) + 1 =>
          position'.size = position.size + position'.trades[Len(position'.trades)].size]_vars

\* C7 witness: a fill reversed the position (long to short or short to long).
C7_Witness ==
    \E i \in DOMAIN position.trades :
        /\ i > 1
        /\ position.trades[i - 1].position_after * position.trades[i].position_after < 0

\* C8: an update call on a new calendar date leaves day_start_equity and
\* intraday_high at the call's equity, and, with a positive max_daily_loss,
\* the daily-loss flag false.
C8_DayRollover ==
    risk_in.day # risk_prev.current_day =>
        /\ risk.day_start_equity = risk_in.equity
        /\ risk.intraday_high = risk_in.equity
        /\ (config.max_daily_loss > 0 => ~risk.daily_loss_limit_hit)

\* C8 witness: the daily-loss flag was set on an earlier date and the last call,
\* on a new date, cleared it.
C8_Witness ==
    /\ risk_prev.current_day # None
    /\ risk_in.day # risk_prev.current_day
    /\ risk_prev.daily_loss_limit_hit
    /\ config.max_daily_loss > 0
    /\ ~risk.daily_loss_limit_hit

\* C9: once the max-loss flag is set, every later update call leaves it set.
C9_MaxLossSticky ==
    [][risk.max_loss_hit => risk'.max_loss_hit]_vars

\* C9 witness: the flag is set, and the last call was on a later date than the
\* one before, with equity back at the initial balance, and allowed trading.
C9_Witness ==
    /\ risk.max_loss_hit
    /\ risk_prev.current_day # None
    /\ risk_in.day # risk_prev.current_day
    /\ risk_in.equity >= config.initial_balance
    /\ risk_status.can_trade

\* C10: in a pass that has a bar for its symbol, a limit buy in the pending
\* list fills iff low <= limit, at open when open <= limit and at the limit
\* otherwise; a limit sell fills iff high >= limit, at open when
\* open >= limit and at the limit otherwise.
C10_LimitMatching ==
    [][\A id \in Range(pending) :
          (orders[id].order_type = "limit" /\ orders[id].symbol \in DOMAIN cur_bar') =>
              LET o == orders[id]
                  bar == cur_bar'[o.symbol]
                  hit == IF is_buy(o) THEN bar.low <= o.price ELSE bar.high >= o.price
                  at == IF is_buy(o)
                        THEN (IF bar.open <= o.price THEN bar.open ELSE o.price)
                        ELSE (IF bar.open >= o.price THEN bar.open ELSE o.price)
              IN /\ (id \in FillIds(fills') <=> hit)
                 /\ hit => /\ <<id, at>> \in Range(fills')
                           /\ orders'[id].fill_price = at
                           /\ (is_buy(o) => at <= o.price)
                           /\ (is_sell(o) => at >= o.price)]_vars

\* C10 witness: the last pass filled a limit buy below its limit (the bar
\* opened under it) and left a pending limit sell unfilled (the bar's high
\* stayed under its limit).
C10_Witness ==
    /\ \E k \in DOMAIN fills :
          /\ orders[fills[k][1]].order_type = "limit"
          /\ is_buy(orders[fills[k][1]])
          /\ fills[k][2] < orders[fills[k][1]].price
    /\ \E id \in Range(pending) :
          /\ orders[id].order_type = "limit"
          /\ is_sell(orders[id])
          /\ orders[id].symbol \in DOMAIN cur_bar
          /\ cur_bar[orders[id].symbol].high < orders[id].price

\* C11: in a pass that has a bar for its symbol, a stop buy in the pending
\* list fills iff high >= stop, at open when open >= stop and at the stop
\* otherwise, never below the stop; a stop sell fills iff low <= stop, at open
\* when open <= stop and at the stop otherwise, never above the stop.
C11_StopMatching ==
    [][\A id \in Range(pending) :
          (orders[id].order_type = "stop" /\ orders[id].symbol \in DOMAIN cur_bar') =>
              LET o == orders[id]
                  bar == cur_bar'[o.symbol]
                  hit == IF is_buy(o) THEN bar.high >= o.stop_price ELSE bar.low <= o.stop_price
                  at == IF is_buy(o)
                        THEN (IF bar.open >= o.stop_price THEN bar.open ELSE o.stop_price)
                        ELSE (IF bar.open <= o.stop_price THEN bar.open ELSE o.stop_price)
              IN /\ (id \in FillIds(fills') <=> hit)
                 /\ hit => /\ <<id, at>> \in Range(fills')
                           /\ orders'[id].fill_price = at
                           /\ (is_buy(o) => at >= o.stop_price)
                           /\ (is_sell(o) => at <= o.stop_price)]_vars

\* C11 witness: the last pass filled a stop buy above its stop (the bar opened
\* over it) and left a pending stop sell unfilled (the bar's low stayed over
\* its stop).
C11_Witness ==
    /\ \E k \in DOMAIN fills :
          /\ orders[fills[k][1]].order_type = "stop"
          /\ is_buy(orders[fills[k][1]])
          /\ fills[k][2] > orders[fills[k][1]].stop_price
    /\ \E id \in Range(pending) :
          /\ orders[id].order_type = "stop"
          /\ is_sell(orders[id])
          /\ orders[id].symbol \in DOMAIN cur_bar
          /\ cur_bar[orders[id].symbol].low > orders[id].stop_price

\* C12: a market order in the pending list is filled whole, at the bar's open,
\* by a pass that has a bar for its symbol, and leaves the pending list; with
\* no bar for its symbol it stays in the pending list, unfilled.
C12_MarketAtOpen ==
    [][\A id \in Range(pending) :
          orders[id].order_type = "market" =>
              IF orders[id].symbol \in DOMAIN cur_bar'
              THEN /\ <<id, cur_bar'[orders[id].symbol].open>> \in Range(fills')
                   /\ orders'[id].fill_price = cur_bar'[orders[id].symbol].open
                   /\ orders'[id].status = "filled"
                   /\ orders'[id].size = orders[id].size
                   /\ id \notin Range(pending')
              ELSE /\ id \in Range(pending')
                   /\ id \notin FillIds(fills')
                   /\ orders'[id].fill_price = orders[id].fill_price
                   /\ ~is_filled(orders'[id]) \/ is_filled(orders[id])]_vars

\* C12 witness: the last pass filled a market order at the open of a bar that
\* traded above its open.
C12_Witness ==
    \E k \in DOMAIN fills :
        LET o == orders[fills[k][1]]
        IN /\ o.order_type = "market"
           /\ o.symbol \in DOMAIN cur_bar
           /\ fills[k][2] = cur_bar[o.symbol].open
           /\ cur_bar[o.symbol].open < cur_bar[o.symbol].high

\* C13: an update call at or after the configured close time returns
\* can_trade false and close_positions true, whatever the equity and the
\* state the call found.
C13_SessionClose ==
    (risk_in.day # None /\ risk_in.time >= config.position_close_time) =>
        ~risk_status.can_trade /\ risk_status.close_positions

\* C13 witness: a call at the close time, on the date of the call before, with
\* no loss on the day and equity above the initial balance.
C13_Witness ==
    /\ risk_in.day # None
    /\ risk_in.day = risk_prev.current_day
    /\ risk_in.time >= config.position_close_time
    /\ risk_in.equity > risk.day_start_equity
    /\ risk_in.equity > config.initial_balance
    /\ ~risk_status.can_trade

\* C14: an update call before the close time with
\* equity - day_start_equity <= -max_daily_loss sets the daily-loss flag and
\* returns can_trade false and close_positions true.
C14_DailyLoss ==
    (/\ risk_in.day # None
     /\ risk_in.time < config.position_close_time
     /\ risk_in.equity - risk.day_start_equity <= -config.max_daily_loss) =>
        /\ risk.daily_loss_limit_hit
        /\ ~risk_status.can_trade
        /\ risk_status.close_positions

\* C14 witness: a call before the close time, on the date of the call before,
\* with the day's loss exactly at a positive limit, set the flag.
C14_Witness ==
    /\ risk_in.day # None
    /\ risk_in.day = risk_prev.current_day
    /\ ~risk_prev.daily_loss_limit_hit
    /\ risk_in.time < config.position_close_time
    /\ config.max_daily_loss > 0
    /\ risk_in.equity - risk.day_start_equity = -config.max_daily_loss
    /\ risk.daily_loss_limit_hit

C16_ForcedLiquidation ==
    [][(engine.pc = "running" /\ engine'.t = engine.t + 1 /\ risk_status'.close_positions) =>
          \A s \in Symbols :
              engine.positions[s].size # 0 =>
                  Cardinality({id \in (Len(orders) + 1)..Len(orders') :
                      /\ orders'[id].symbol = s
                      /\ orders'[id].order_type = "market"
                      /\ orders'[id].side = (IF engine.positions[s].size > 0
                                             THEN "sell" ELSE "buy")
                      /\ orders'[id].size = Abs(engine.positions[s].size)
                      /\ (id \in Range(pending') \/ id \in FillIds(fills'))}) = 1]_vars

\* C17: every iteration that run() completes has matched the pending orders
\* against the iteration's bar, whatever can_trade was.
C17_MatchEveryStep ==
    (engine.t > 0 /\ engine.pc # "raised") => step.matched

\* C18: run() raises on no iteration, and returns only with the timeline
\* exhausted.
C18_RunCompletes ==
    /\ engine.pc # "raised"
    /\ engine.pc = "done" => engine.t = Len(Timeline)

\* C19: the equity curve has one sample per iteration run() has completed, in
\* timestamp order, and the equity the risk manager was last given is the
\* sample of the iteration before.
C19_SamplePerStep ==
    engine.pc # "raised" =>
        /\ Len(results.equity_curve) = engine.t
        /\ \A i \in DOMAIN results.equity_curve : results.equity_curve[i].timestamp = i
        /\ engine.t > 1 => risk_in.equity = results.equity_curve[engine.t - 1].equity

\* Fill i took the position from a nonzero size to zero or to the opposite sign.
Crossed(trades, i) ==
    LET before == IF i = 1 THEN 0 ELSE trades[i - 1].position_after
    IN before # 0 /\ before * trades[i].position_after <= 0

\* Fill i began the position's present direction: from flat or by a reversal.
Began(trades, i) ==
    LET before == IF i = 1 THEN 0 ELSE trades[i - 1].position_after
    IN trades[i].position_after # 0 /\ before * trades[i].position_after <= 0

\* C20: for every symbol there is one trade record and one notify_trade call
\* per fill that took the position through zero, and the open trade of a
\* position that is not flat is logged at the price of the fill that began
\* its present direction.
C20_TradePerCrossing ==
    \A s \in Symbols :
        LET trades == engine.positions[s].trades
            crossings == Cardinality({i \in DOMAIN trades : Crossed(trades, i)})
            began == {i \in DOMAIN trades : Began(trades, i)}
            last == CHOOSE i \in began : \A j \in began : j <= i
        IN /\ Cardinality({k \in DOMAIN results.trades :
                               results.trades[k].symbol = s}) = crossings
           /\ Cardinality({k \in DOMAIN callbacks.notify_trade :
                               callbacks.notify_trade[k].symbol = s}) = crossings
           /\ engine.positions[s].size # 0 =>
                  /\ s \in DOMAIN engine.trade_log
                  /\ engine.trade_log[s].price = trades[last].price
                  /\ engine.trade_log[s].size = trades[last].position_after

\* C24: in every state a cancel_order call is made in, cancel_order on an id
\* that is unknown, or whose order is filled, cancelled or rejected, returns
\* False and changes nothing, with or without the OCO cascade; and the call
\* that returned False left every order's status and the pending list as
\* they were.
C24_CancelInactive ==
    [][ret' # "None" =>
          /\ \A order_id \in 1..MaxOrders, cancel_linked_oco \in BOOLEAN :
                (order_id \notin DOMAIN orders \/ orders[order_id].status \in Terminal) =>
                    /\ ~cancel_order_ret(OM, order_id)
                    /\ cancel_order(OM, order_id, cancel_linked_oco) = OM
          /\ ret' = "False" =>
                /\ orders' = orders
                /\ pending' = pending
                /\ oco_groups' = oco_groups
                /\ bracket_children' = bracket_children]_vars

\* C24 witness: cancel_order returned False although an order is active: the
\* call was on an unknown id or on a filled or cancelled order whose OCO
\* sibling is still active and pending.
C24_Witness ==
    /\ ret = "False"
    /\ \E g \in DOMAIN oco_groups :
          \E i \in Range(oco_groups[g]), j \in Range(oco_groups[g]) :
              /\ orders[i].status = "cancelled"
              /\ is_active(orders[j])
              /\ j \in Range(pending)

\* C30: in every state a cancel_order call is made in, cancel_order on an
\* active order cancels it and returns True; with
\* the cascade every other active member of its OCO group is cancelled too,
\* without it every other order is as before; no order outside the group
\* changes, and nothing but statuses changes.
C30_CancelActive ==
    [][ret' # "None" =>
          /\ \A order_id \in DOMAIN orders, cancel_linked_oco \in BOOLEAN :
                is_active(orders[order_id]) =>
                    LET om == cancel_order(OM, order_id, cancel_linked_oco)
                        oco == orders[order_id].oco_id
                        group == IF oco # None THEN Range(oco_groups[oco]) ELSE {}
                    IN /\ cancel_order_ret(OM, order_id)
                       /\ om.orders[order_id] =
                             [orders[order_id] EXCEPT !.status = "cancelled"]
                       /\ \A i \in DOMAIN orders \ {order_id} :
                             om.orders[i] =
                                IF cancel_linked_oco /\ i \in group /\ is_active(orders[i])
                                THEN [orders[i] EXCEPT !.status = "cancelled"]
                                ELSE orders[i]
                       /\ om.pending = pending
                       /\ om.oco_groups = oco_groups
                       /\ om.bracket_children = bracket_children
          /\ ret' = "True" =>
                \E order_id \in DOMAIN orders, cancel_linked_oco \in BOOLEAN :
                    /\ is_active(orders[order_id])
                    /\ orders' = cancel_order(OM, order_id, cancel_linked_oco).orders
                    /\ orders'[order_id].status = "cancelled"
                    /\ pending' = pending]_vars

\* C30 witness: cancel_order returned True and left an active, pending order
\* in the group of a cancelled one: a cancel without the cascade.
C30_Witness ==
    /\ ret = "True"
    /\ \E g \in DOMAIN oco_groups :
          \E i \in Range(oco_groups[g]), j \in Range(oco_groups[g]) :
              /\ orders[i].status = "cancelled"
              /\ is_active(orders[j])
              /\ j \in Range(pending)

\* The place of x in the list s (0 when x is not in it).
IndexIn(s, x) == IF x \in Range(s) THEN CHOOSE k \in DOMAIN s : s[k] = x ELSE 0

\* a and b are both in the list s, a first.
Precedes(s, a, b) == a \in Range(s) /\ b \in Range(s) /\ IndexIn(s, a) < IndexIn(s, b)

\* C29: a pass returns its fills in the order of the pending list, which is
\* the order of submission, and the orders it leaves unmatched keep their
\* relative order; the children a fill activates come after every order that
\* was pending, the take profit before the stop loss.
C29_SubmissionOrder ==
    [][DOMAIN cur_bar' # {} => \A a \in DOMAIN orders, b \in DOMAIN orders :
          LET first == \/ Precedes(pending, a, b)
                       \/ a \in Range(pending) /\ b \in activated'
                       \/ \E br \in brackets : a = br[2] /\ b = br[3] /\ a \in activated'
              filled == [k \in DOMAIN fills' |-> fills'[k][1]]
          IN (a # b /\ first) =>
                /\ (a \in Range(filled) /\ b \in Range(filled)) => Precedes(filled, a, b)
                /\ (a \in Range(pending') /\ b \in Range(pending')) =>
                       Precedes(pending', a, b)]_vars

\* C29 witness: the last pass had a bar, filled an order that was submitted
\* after the two it left unmatched, and those two are still in the pending
\* list in their order of submission.
C29_Witness ==
    /\ DOMAIN cur_bar # {}
    /\ Len(fills) = 1
    /\ Len(pending) = 2
    /\ pending[1] < pending[2]
    /\ pending[2] < fills[1][1]

\* C25: an order whose kind is not a recognized one has status rejected from
\* its submission on and is never in the pending list.
C25_UnrecognizedRejected ==
    \A id \in DOMAIN orders :
        orders[id].order_type \notin OrderTypes =>
            orders[id].status = "rejected" /\ id \notin Range(pending)

\* C26: can_open_position returns a rejection (false with a reason) if the
\* daily-loss flag is set, or the max-loss flag is set, or a cap is configured
\* and the sum of the absolute open sizes over all symbols plus the absolute
\* requested size exceeds it; otherwise it returns (true, none); it never
\* changes the risk manager's state.
C26_CanOpenPosition ==
    [][(can_open'.called /\ can_open' # can_open) =>
          LET held == SumAbs(can_open'.current_positions, CapSymbols)
              rejected == \/ risk.daily_loss_limit_hit
                          \/ risk.max_loss_hit
                          \/ /\ config.max_contracts # <<>>
                             /\ held + Abs(can_open'.size) > config.max_contracts[1]
          IN /\ rejected => (can_open'.ret[1] = FALSE /\ can_open'.ret[2] # "None")
             /\ ~rejected => can_open'.ret = <<TRUE, "None">>
             /\ risk' = risk]_vars

\* C27: at every step of the timeline, with timestamp t, the bar given for an
\* instrument is its bar of the greatest timestamp <= t, never a bar of a
\* later timestamp, and an instrument with no bar at or before t is absent
\* from the bar mapping.
C27_AsOfJoin ==
    feed.pc = "yielded" =>
        \A sym \in FeedSymbols :
            LET data == feed.feeds[sym]
                past == {i \in DOMAIN data : data[i].name <= feed.timestamp}
            IN IF past = {}
               THEN sym \notin DOMAIN feed.bar
               ELSE /\ sym \in DOMAIN feed.bar
                    /\ feed.bar[sym] \in {data[i] : i \in past}
                    /\ feed.bar[sym].name <= feed.timestamp
                    /\ \A i \in past : data[i].name <= feed.bar[sym].name

C27_Witness ==
    /\ feed.pc = "yielded"
    /\ \E a, b \in FeedSymbols :
          /\ a \notin DOMAIN feed.bar
          /\ b \in DOMAIN feed.bar
          /\ feed.bar[b].name < feed.timestamp
          /\ \E i \in DOMAIN feed.feeds[b] : feed.feeds[b][i].name > feed.timestamp

\* C28: strategy.next() is called exactly once on each step whose risk status
\* has can_trade true and not at all on a step whose status has can_trade
\* false; within a step it runs after the matching pass and the fill
\* processing: it sees the orders and positions they left, and nothing it
\* submits is matched in that step.
C28_OnBarOnce ==
    [][engine'.t = engine.t + 1 =>
          IF risk_status'.can_trade
          THEN LET st == process_pending(OM, cur_bar')
               IN /\ callbacks'.next = callbacks.next + 1
                  /\ step'.matched
                  /\ fills' = st.fills
                  /\ callbacks'.notify_order = callbacks.notify_order + Len(fills')
                  /\ FillIds(fills') \subseteq DOMAIN orders
                  /\ \E om \in next([orders |-> st.orders, pending |-> st.pending,
                                      oco_groups |-> st.oco_groups,
                                      bracket_children |-> st.bracket_children],
                                     engine'.positions) :
                        orders' = om.orders /\ pending' = om.pending
          ELSE /\ callbacks'.next = callbacks.next
               /\ orders' = orders /\ pending' = pending]_vars

C28_Witness ==
    /\ step.matched
    /\ Len(fills) = 1
    /\ engine.t = callbacks.next + 1
    /\ Len(orders) = 2
    /\ orders[2].status = "pending"

\* C21: the trade record added when a fill brings a position to flat has as
\* entry_price the position's average entry price just before that fill (the
\* volume-weighted price of every same-direction fill since it opened), and
\* its pnl is computed from that price and the fill price.  Stated for
\* positions that never went through zero in one fill.
C21_BlendedEntryPrice ==
    [][(Len(results'.trades) = Len(results.trades) + 1 /\ Len(fills') = 1) =>
          LET record == results'.trades[Len(results'.trades)]
              before == engine.positions[record.symbol]
              avg == before.avg_entry_price
              after == engine'.positions[record.symbol].trades
          IN (\A i \in DOMAIN after :
                  i > 1 => after[i - 1].position_after * after[i].position_after >= 0) =>
                /\ record.entry_price * avg.d = avg.n
                /\ record.exit_price = fills'[1][2]
                /\ record.pnl * avg.d
                       = (record.exit_price * avg.d - avg.n) * PointValue * before.size]_vars

\* C22: once the entry of a buy bracket of T take-profit ticks and S stop-loss
\* ticks has filled at price P, the take-profit child's limit price is
\* P + T * tick_size and the stop-loss child's stop price is P - S * tick_size;
\* mirrored for a sell bracket.
C22_ChildPrices ==
    \A e \in DOMAIN bracket_args :
        orders[e].status = "filled" =>
            LET P == orders[e].fill_price
                T == bracket_args[e].take_profit_ticks \div TicksPerPoint
                S == bracket_args[e].stop_loss_ticks \div TicksPerPoint
            IN IF bracket_args[e].side = "buy"
               THEN orders[e + 1].price = P + T /\ orders[e + 2].stop_price = P - S
               ELSE orders[e + 1].price = P - T /\ orders[e + 2].stop_price = P + S

\* C23: two runs given the same inputs return the same sequence of fills,
\* whatever order ids and OCO-group ids were generated in each.
C23_Determinism == twin.drawn.log = twin.fresh.log

\* C31: Position.update with a fill opposite to the position: a fill smaller
\* than the position leaves the average entry price as it was; a fill at
\* least as large makes the size fill_size + old size and the average entry
\* price the fill price if that remainder is not zero, 0 if it is.
C31_OppositeFill ==
    [][(Len(position'.trades) = Len(position.trades) + 1) =>
          LET fill == position'.trades[Len(position'.trades)]
          IN (position.size * fill.size < 0) =>
                IF Abs(fill.size) < Abs(position.size)
                THEN position'.avg_entry_price = position.avg_entry_price
                ELSE /\ position'.size = fill.size + position.size
                     /\ position'.avg_entry_price =
                            IF position'.size # 0 THEN Frac(fill.price, 1)
                            ELSE Frac(0, 1)]_vars

C31_Witness ==
    /\ Len(position.trades) = 3
    /\ position.trades[1].position_after = 2
    /\ position.trades[2].position_after = 1
    /\ position.trades[2].price # position.trades[1].price
    /\ position.trades[3].position_after = -1
    /\ position.avg_entry_price = Frac(position.trades[3].price, 1)

\* C32: every Position.update call appends exactly one record to trades,
\* whose position_after is the size after the call, and leaves every earlier
\* record as it was; so the last record's position_after is the current size.
C32_AppendOnly ==
    [][position' # position =>
          LET n == Len(position.trades)
          IN /\ Len(position'.trades) = n + 1
             /\ SubSeq(position'.trades, 1, n) = position.trades
             /\ DOMAIN position'.trades[n + 1]
                    = {"timestamp", "price", "size", "position_after"}
             /\ position'.trades[n + 1].position_after = position'.size
             /\ position'.size = position.size + position'.trades[n + 1].size]_vars

C32_Witness ==
    /\ Len(position.trades) = MaxFills
    /\ position.trades[MaxFills].position_after = position.size
    /\ position.size # 0
    /\ position.trades[1].position_after # position.size

\* C33: an order the strategy submitted at step k is matched at a later step
\* only, and the bar it is filled against is later than the bar the strategy
\* was shown for its symbol at step k.
C33_NoLookAhead ==
    \A id \in DOMAIN look.matched :
        /\ look.matched[id].step > look.seen[id].step
        /\ look.matched[id].bar > look.seen[id].bar

\* C34: under a configuration with max_contracts set, at every step of a run
\* the sum of the absolute position sizes over all symbols is at most
\* max_contracts.
C34_CapRespected ==
    config.max_contracts # <<>> =>
        SumAbs([sym \in Symbols |-> engine.positions[sym].size], Symbols)
            <= config.max_contracts[1]

\* The contracts of every fill a position has taken.
RECURSIVE FilledContracts(_, _)
FilledContracts(trades, i) ==
    IF i > Len(trades) THEN 0
    ELSE Abs(trades[i].size) + FilledContracts(trades, i + 1)

\* C35: cash is the initial balance less the commission on every contract
\* filled, whatever P&L the closed trades realized; and while every position
\* is flat the equity is that cash.
C35_CashIsCommissions ==
    LET filled == FilledContracts(engine.positions["MES"].trades, 1)
    IN /\ engine.cash = config.initial_balance - commission_per_contract * filled
       /\ engine.positions["MES"].size = 0 =>
              /\ engine.equity = engine.cash
              /\ results.equity_curve # <<>> =>
                     results.equity_curve[Len(results.equity_curve)].equity = engine.cash

C35_Witness ==
    /\ engine.positions["MES"].size = 0
    /\ \E k \in DOMAIN results.trades : results.trades[k].pnl > 0
    /\ engine.equity < config.initial_balance

\* C36: when a fill closes a position, the entry price, exit price and P&L
\* handed to notify_trade are those of the trade record appended for that
\* close, for positions that never reversed through zero.
C36_CallbackMatchesRecord ==
    [][(/\ Len(results'.trades) = Len(results.trades) + 1
        /\ Len(callbacks'.notify_trade) = Len(callbacks.notify_trade) + 1) =>
          LET record == results'.trades[Len(results'.trades)]
              call == callbacks'.notify_trade[Len(callbacks'.notify_trade)]
              after == engine'.positions[record.symbol].trades
          IN (\A i \in DOMAIN after :
                  i > 1 => after[i - 1].position_after * after[i].position_after >= 0) =>
                /\ call.symbol = record.symbol
                /\ call.entry_price = record.entry_price
                /\ call.exit_price = record.exit_price
                /\ call.pnl = record.pnl]_vars

\* C37: once the max-loss flag is set, every later update call returns
\* can_trade false, on the same day and on later days, in every drawdown mode.
C37_BlockedAfterMaxLoss ==
    [][risk.max_loss_hit => ~risk_status'.can_trade]_vars

\* C38: after every update call the all-time high is at least the intraday
\* high, which is at least the equity of the call and the day-start equity;
\* the all-time high never decreases and the intraday high decreases only on
\* a day rollover; so both trailing drawdowns are at least 0 and the intraday
\* one is at most the all-time one.
C38_HighWaterMarks ==
    [][/\ risk'.equity_high >= risk'.intraday_high
       /\ risk'.intraday_high >= risk_in'.equity
       /\ risk'.intraday_high >= risk'.day_start_equity
       /\ risk'.equity_high >= risk.equity_high
       /\ risk'.intraday_high < risk.intraday_high => risk'.current_day # risk.current_day
       /\ risk'.intraday_high - risk_in'.equity >= 0
       /\ risk'.equity_high - risk_in'.equity >= risk'.intraday_high - risk_in'.equity]_vars

\* C38 witness: the all-time high was raised above the initial balance on an
\* earlier day; the current day started lower, made its own high, and the
\* last call's equity is below that.
C38_Witness ==
    /\ risk.current_day # None
    /\ risk.equity_high > config.initial_balance
    /\ risk.intraday_high < config.initial_balance
    /\ risk.day_start_equity < risk.intraday_high
    /\ risk_in.equity < risk.intraday_high

\* C39: a bracket whose entry was cancelled before filling stays dead: no
\* operation fills the entry, and its take profit and stop loss are never put
\* in the pending list and never fill.
C39_CancelledBracketDead ==
    [][\A b \in brackets :
          orders[b[1]].status = "cancelled" =>
              /\ ~is_filled(orders'[b[1]])
              /\ b[1] \notin FillIds(fills')
              /\ \A c \in {b[2], b[3]} :
                    /\ c \notin Range(pending')
                    /\ c \notin FillIds(fills')
                    /\ ~is_filled(orders'[c])]_vars

\* C40: a stop-limit order is pending and in the pending list once submitted;
\* no pass returns it as a fill or sets it filled, and it is still in the
\* pending list after every pass, whatever the bar.
C40_StopLimitNeverMatched ==
    [][\A id \in DOMAIN orders' :
          orders'[id].order_type = "stop_limit" =>
              /\ id \notin DOMAIN orders => orders'[id].status = "pending"
              /\ id \in Range(pending')
              /\ id \notin FillIds(fills')
              /\ ~is_filled(orders'[id])
              /\ orders'[id].fill_price = None]_vars

\* C40 witness: the last pass had a bar for the symbol and filled an order
\* submitted after a stop-limit order, which is still pending and in the
\* pending list.
C40_Witness ==
    \E id \in Range(pending) :
        /\ orders[id].order_type = "stop_limit"
        /\ orders[id].status = "pending"
        /\ orders[id].symbol \in DOMAIN cur_bar
        /\ \E k \in DOMAIN fills : fills[k][1] > id

====
